---- MODULE Spec2Model ----
(***************************************************************************)
(* Multi-instance WhatsApp <-> n8n connector: the inbound message router,  *)
(* the three-tier AI response pipeline, the authorization evaluator, the   *)
(* input sanitizer and the stores they use.                                *)
(*                                                                         *)
(* Text is modelled as a sequence of tokens (a token is a TLA+ string): a  *)
(* token stands for a run of characters that the code's string operations  *)
(* never split ("@c.us", "@g.us", "*", "<", ">", "/", a word).             *)
(***************************************************************************)
EXTENDS Integers, Sequences, FiniteSets, TLC

\* ------------------------------------------------------------------ bounds

\* Inbound message events delivered over the whole run.
MaxMessages == 2
\* Handlers of handleIncomingMessage suspended at an await at the same time.
MaxInflight == 2
\* Longest sanitizer input, in tokens.
MaxInputLen == 12
\* REST requests received over the whole run.
MaxCalls == 3
\* Client objects constructed over the whole run.
MaxHandles == 3
\* Lifecycle events emitted by the Client objects over the whole run.
MaxEvents == 2
\* REST requests received over a run of the events.
MaxEventCalls == 2

\* ------------------------------------------------------- JavaScript values

\* The value of a property that is not there.
Undefined == "undefined"

\* null, as returned by getInstanceConfig for an unknown instance.
NoConfig == [null |-> TRUE]

IsNull(c) == "null" \in DOMAIN c

\* obj.name, Undefined when the object has no such property.
Prop(obj, name) == IF name \in DOMAIN obj THEN obj[name] ELSE Undefined

\* JavaScript truthiness of a text value.
Truthy(v) == v # Undefined /\ v # ""

\* a || b
OrElse(a, b) == IF Truthy(a) THEN a ELSE b

\* ------------------------------------------------------------ token strings

Includes(s, tok) == \E k \in 1..Len(s) : s[k] = tok

FirstIndex(s, tok) == CHOOSE k \in 1..Len(s) : s[k] = tok /\ \A j \in 1..(k - 1) : s[j] # tok

\* s.replace(tok, ''): a string pattern removes the first occurrence only.
ReplaceFirst(s, tok) ==
    IF Includes(s, tok)
    THEN LET k == FirstIndex(s, tok) IN SubSeq(s, 1, k - 1) \o SubSeq(s, k + 1, Len(s))
    ELSE s

RECURSIVE TrimStart(_)
TrimStart(s) == IF s # <<>> /\ Head(s) = " " THEN TrimStart(Tail(s)) ELSE s

RECURSIVE TrimEnd(_)
TrimEnd(s) == IF s # <<>> /\ s[Len(s)] = " " THEN TrimEnd(SubSeq(s, 1, Len(s) - 1)) ELSE s

\* s.trim()
Trim(s) == TrimEnd(TrimStart(s))

\* s.startsWith(p)
StartsWith(s, p) == Len(s) >= Len(p) /\ SubSeq(s, 1, Len(p)) = p

\* xs.slice(-n) for n >= 1
SliceLast(xs, n) == IF Len(xs) > n THEN SubSeq(xs, Len(xs) - n + 1, Len(xs)) ELSE xs

\* ----------------------------------------------------------- sanitizeInput

\* The disallowed tag names; "script" is two tokens so that a marker can be
\* nested inside the name of another.
Tags == { <<"scr", "ipt">>, <<"form">> }

\* Length of the match of /<\/?(tag).*?>/ (slash allowed) or /<(tag).*?>/
\* (slash not allowed) at the start of s; 0 when there is none.  The lazy
\* .*? stops at the first ">" and does not cross a line break.
MatchLen(s, slash) ==
    IF s = <<>> \/ Head(s) # "<" THEN 0
    ELSE LET k == IF slash /\ Len(s) >= 2 /\ s[2] = "/" THEN 2 ELSE 1
             named == { t \in Tags : Len(s) >= k + Len(t) /\ SubSeq(s, k + 1, k + Len(t)) = t }
         IN  IF named = {} THEN 0
             ELSE LET t == CHOOSE t \in named : TRUE
                      from == k + Len(t) + 1
                      ends == { j \in from..Len(s) :
                                  /\ s[j] = ">"
                                  /\ \A m \in from..(j - 1) : s[m] # ">" /\ s[m] # "\n" }
                  IN  IF ends = {} THEN 0 ELSE CHOOSE j \in ends : TRUE

\* input.replace(re, '') with the g flag: matches are found left to right in
\* the input, each search resuming after the previous match.
RECURSIVE ReplaceAllTags(_, _)
ReplaceAllTags(s, slash) ==
    IF s = <<>> THEN <<>>
    ELSE LET m == MatchLen(s, slash)
         IN  IF m > 0 THEN ReplaceAllTags(SubSeq(s, m + 1, Len(s)), slash)
             ELSE <<Head(s)>> \o ReplaceAllTags(Tail(s), slash)

sanitizeInput(input) == ReplaceAllTags(ReplaceAllTags(input, FALSE), TRUE)

\* ----------------------------------------------------- authorization

\* isGroupAuthorized letting the user wildcard open every group.
isGroupAuthorizedByUsers(groupId, config) ==
    IF IsNull(config) THEN FALSE
    ELSE IF "allowedUsers" \in DOMAIN config /\ <<"*">> \in config.allowedUsers THEN TRUE
    ELSE IF "allowedGroups" \in DOMAIN config /\ <<"*">> \in config.allowedGroups THEN TRUE
    ELSE IF "allowedGroups" \in DOMAIN config THEN groupId \in config.allowedGroups
    ELSE FALSE

isGroupAuthorized(groupId, config) ==
    IF IsNull(config) THEN FALSE
    ELSE IF "allowedGroups" \in DOMAIN config /\ <<"*">> \in config.allowedGroups THEN TRUE
    ELSE IF "allowedGroups" \in DOMAIN config THEN groupId \in config.allowedGroups
    ELSE FALSE

\* isUserAuthorized sending group ids to the group list before it looks for
\* the user wildcard.
isUserAuthorizedGroupFirst(userId, config) ==
    IF IsNull(config) THEN FALSE
    ELSE IF Includes(userId, "@g.us") THEN isGroupAuthorized(userId, config)
    ELSE IF "allowedUsers" \in DOMAIN config /\ <<"*">> \in config.allowedUsers THEN TRUE
    ELSE IF "allowedUsers" \in DOMAIN config
         THEN \E allowedUser \in config.allowedUsers :
                 ReplaceFirst(allowedUser, "@c.us") = ReplaceFirst(userId, "@c.us")
    ELSE FALSE

isUserAuthorized(userId, config) ==
    IF IsNull(config) THEN FALSE
    ELSE IF "allowedUsers" \in DOMAIN config /\ <<"*">> \in config.allowedUsers THEN TRUE
    ELSE IF Includes(userId, "@g.us") THEN isGroupAuthorized(userId, config)
    ELSE IF "allowedUsers" \in DOMAIN config
         THEN \E allowedUser \in config.allowedUsers :
                 ReplaceFirst(allowedUser, "@c.us") = ReplaceFirst(userId, "@c.us")
    ELSE FALSE

\* ------------------------------------------------------------- identifiers

Instances == { <<"bot1">> }

UserA == <<"5551234567", "@c.us">>
Group1 == <<"g1", "@g.us">>
AuthorId == UserA

\* message.from of the inbound events.
Senders == { UserA, Group1 }

\* message.body of the inbound events.
Bodies == { <<"!bot", " ", "hello">>, <<"<", "scr", "ipt", ">">> }

\* req.body.allowedUsers / allowedGroups of a create request.
AllowedUsersChoices == { {}, { <<"5551234567">> }, { <<"*">> } }
AllowedGroupsChoices == { { <<"g2", "@g.us">> }, { Group1 } }

\* req.body.options of a create request: the documented defaults, and
\* options with another command prefix, the denial notice off and a
\* conversation window of two messages.
OptionsChoices ==
    { [commandPrefix |-> <<"!bot">>, processSelfMessages |-> FALSE, notifyUnauthorized |-> TRUE,
       maxConversationLength |-> 20, showTypingIndicator |-> TRUE, enableAnalytics |-> FALSE],
      [commandPrefix |-> <<"!ai">>, processSelfMessages |-> FALSE, notifyUnauthorized |-> FALSE,
       maxConversationLength |-> 2, showTypingIndicator |-> TRUE, enableAnalytics |-> FALSE] }

\* req.body.n8nConfig of a create request, with and without a fallback path.
N8nConfigChoices ==
    { [baseUrl |-> "http://n8n", webhookPath |-> "webhook/whatsapp-ai-bot"],
      [baseUrl |-> "http://n8n", webhookPath |-> "webhook/whatsapp-ai-bot",
       fallbackWebhookPath |-> "webhook/fallback"] }

\* ------------------------------------------------------------ fixed texts

DenialNotice == "I'm sorry, you are not authorized to use this service."
ApologyDirect == "I encountered an error while processing your message. Please try again later."
ApologyGroup == "I encountered an error while processing your message."
TechnicalDifficulties == "I'm currently experiencing technical difficulties."
FallbackTrouble == "I'm sorry, I'm having trouble generating a response right now."

DefaultMaxConversationLength == 20
DefaultCommandPrefix == <<"!bot">>
MentionToken == "@5550000000"

\* --------------------------------------------------------------- state

VARIABLES
    store,            \* data/instances/<id>.json: instance id -> config, NoConfig when absent
    clientInstances,  \* the runtime map: instance id -> client, NoClient when absent
    files,            \* data/<key>_conversation.json: file name -> stored messages
    handlers,         \* the calls of handleIncomingMessage suspended at an await
    arrived,          \* number of message_create events delivered so far
    appended,         \* file name -> every message a save has added to the file, in order
    last,             \* the call of handleIncomingMessage that returned most recently
    arg,              \* the argument of a function studied on its own
    res,              \* the result it returned
    calls,            \* the REST handler calls suspended at an await
    handles,          \* the Client objects constructed so far, in order of construction
    responses,        \* the HTTP responses sent so far, in order
    sessionDirs,      \* the instance ids that have a sessions/<id> directory
    qrFiles,          \* the instance ids that have a sessions/<id>/qrcode.txt
    lastDestroy       \* what the latest destroyClientInstance call left behind on return

vars == <<store, clientInstances, files, appended, handlers, arrived, last, arg, res,
          calls, handles, responses, sessionDirs, qrFiles, lastDestroy>>

\* The state of the message router, and the state of the REST handlers.
routerVars == <<files, appended, handlers, arrived, last>>
adminVars == <<calls, handles, responses, sessionDirs, qrFiles, lastDestroy>>

NoClient == [null |-> TRUE]
NoHandler == [null |-> TRUE]

\* ------------------------------------------------------ conversation store

\* One character class [^a-zA-Z0-9] -> "_", token by token.
SafeToken(tok) ==
    CASE tok = "@c.us" -> "_c_us"
      [] tok = "@g.us" -> "_g_us"
      [] tok \in {"-", "_", "*", " ", "<", ">", "/"} -> "_"
      [] OTHER -> tok

SafeName(id) == [k \in 1..Len(id) |-> SafeToken(id[k])]

\* `${instanceId}-${sender}`
ConversationId(instanceId, peer) == instanceId \o <<"-">> \o peer

\* getConversation: the stored messages, or a fresh empty conversation when
\* the file is absent or cannot be read or parsed.
getConversation(fs, userId, readOk) ==
    LET f == SafeName(userId)
    IN  IF f \notin DOMAIN fs THEN <<>>
        ELSE IF readOk THEN fs[f]
        ELSE <<>>

\* saveConversation: overwrite the file in place; a failed write is logged
\* and leaves the file as it was.
saveConversation(fs, userId, messages, writeOk) ==
    LET f == SafeName(userId)
    IN  IF writeOk
        THEN [g \in (DOMAIN fs) \cup {f} |-> IF g = f THEN messages ELSE fs[g]]
        ELSE fs

\* ------------------------------------------------------------ AI tiers

\* What the HTTP POST of a tier can come to: a failure (timeout, connection
\* error, non-2xx), an empty body, or a body.
Tier1Posts ==
    { [kind |-> "fail"], [kind |-> "empty"],
      [kind |-> "data", data |-> [output |-> "hi"]],
      [kind |-> "data", data |-> [output |-> ""]],
      [kind |-> "data", data |-> [status |-> "ok"]] }

Tier2Posts ==
    { [kind |-> "fail"], [kind |-> "empty"] } \cup
    { [kind |-> "data", data |-> [text |-> t, message |-> m, content |-> c]] :
        t \in { Undefined, "", "t-ok" }, m \in { Undefined, "", "m-ok" }, c \in { Undefined, "", "c-ok" } }

\* The POST outcomes the message router is driven with.
RouterTier1Posts ==
    { [kind |-> "fail"],
      [kind |-> "data", data |-> [output |-> "hi"]],
      [kind |-> "data", data |-> [status |-> "ok"]] }

RouterTier2Posts ==
    { [kind |-> "fail"],
      [kind |-> "data", data |-> [text |-> "t-ok", message |-> Undefined, content |-> Undefined]],
      [kind |-> "data", data |-> [text |-> Undefined, message |-> Undefined, content |-> Undefined]] }

\* A JSON body without a property is a body whose property is undefined.
Field(data, name) == Prop(data, name)

\* sendMessageToN8n: [threw, data].  No config, a failed POST and an empty
\* body all end in the catch block, which throws again.
sendMessageToN8n(instanceConfig, post) ==
    IF IsNull(instanceConfig) \/ "n8nConfig" \notin DOMAIN instanceConfig
    THEN [threw |-> TRUE]
    ELSE IF post.kind = "fail" THEN [threw |-> TRUE]
    ELSE IF post.kind = "empty" THEN [threw |-> TRUE]
    ELSE [threw |-> FALSE, data |-> post.data]

\* executeAiModel: [threw, data].  No config, no fallbackWebhookPath and a
\* failed POST throw; the body is returned as it is, empty or not.
executeAiModel(instanceConfig, post) ==
    IF IsNull(instanceConfig) \/ "n8nConfig" \notin DOMAIN instanceConfig
    THEN [threw |-> TRUE]
    ELSE IF "fallbackWebhookPath" \notin DOMAIN instanceConfig.n8nConfig THEN [threw |-> TRUE]
    ELSE IF post.kind = "fail" THEN [threw |-> TRUE]
    ELSE IF post.kind = "empty" THEN [threw |-> FALSE, data |-> [empty |-> TRUE]]
    ELSE [threw |-> FALSE, data |-> post.data]

\* handleFallbackAi answering a failed Tier 2 with the text of its outer
\* catch instead of the static one.
handleFallbackAiTrouble(result) ==
    IF result.threw THEN FallbackTrouble
    ELSE OrElse(OrElse(Field(result.data, "text"), Field(result.data, "message")),
                Field(result.data, "content"))

\* handleFallbackAi preferring content to message to text.
handleFallbackAiContentFirst(result) ==
    IF result.threw THEN TechnicalDifficulties
    ELSE OrElse(OrElse(Field(result.data, "content"), Field(result.data, "message")),
                Field(result.data, "text"))

\* handleFallbackAi, given what executeAiModel came to: the text it returns.
\* It has no path that throws.
handleFallbackAi(result) ==
    IF result.threw THEN TechnicalDifficulties
    ELSE OrElse(OrElse(Field(result.data, "text"), Field(result.data, "message")),
                Field(result.data, "content"))

\* ------------------------------------------------- handleIncomingMessage

\* config.name === true, for the option the handler reads as config.name.
IsTrue(config, name) == name \in DOMAIN config /\ config[name] = TRUE

\* config.maxConversationLength || 20
MaxLength(config) ==
    IF "maxConversationLength" \in DOMAIN config /\ config.maxConversationLength # 0
    THEN config.maxConversationLength
    ELSE DefaultMaxConversationLength

\* config.commandPrefix || '!bot'
CommandPrefix(config) ==
    IF "commandPrefix" \in DOMAIN config /\ config.commandPrefix # <<>>
    THEN config.commandPrefix
    ELSE DefaultCommandPrefix

\* content.replace(new RegExp(`^${prefix}`), '')
RemovePrefix(s, p) == IF StartsWith(s, p) THEN SubSeq(s, Len(p) + 1, Len(s)) ELSE s

\* A call of handleIncomingMessage(message, client, instanceId, config).
\* readFailed records that getConversation could not read the file and gave
\* a fresh conversation.
NewHandler(n, instanceId, config, from, body, fromMe, mentioned) ==
    [n |-> n, inst |-> instanceId, cfg |-> config, from |-> from, body |-> body,
     fromMe |-> fromMe, mentioned |-> mentioned,
     pc |-> "start", where |-> "none", isGroup |-> FALSE, content |-> <<>>, conv |-> <<>>,
     out |-> Undefined, t1 |-> "none", t1out |-> Undefined, t2 |-> "none",
     n8nCalls |-> 0, aiCalls |-> 0, sent |-> <<>>,
     exc |-> FALSE, apology |-> FALSE, raised |-> FALSE, loaded |-> FALSE, saved |-> FALSE,
     readFailed |-> FALSE]

Return(h) == [h EXCEPT !.pc = "done"]

\* After the synchronous prefix the handler reads nothing of the message but
\* message.from and message.reply: the rest of the event is let go.
Suspended(h) == [h EXCEPT !.body = <<>>, !.mentioned = FALSE]

\* handleGroupMessage from its entry to its first await.  The typing
\* indicator (config.showTypingIndicator === true) swallows its own failure
\* and changes nothing the handler reads.
GroupStart(h, fs, readOk) ==
    LET prefix == CommandPrefix(h.cfg)
        isBotMentioned == h.mentioned
        hasCommandPrefix == StartsWith(h.body, prefix)
        unmentioned == IF isBotMentioned THEN Trim(ReplaceFirst(h.body, MentionToken)) ELSE h.body
        unprefixed == IF hasCommandPrefix THEN Trim(RemovePrefix(unmentioned, prefix)) ELSE unmentioned
        messageContent == sanitizeInput(unprefixed)
    IN  IF ~isGroupAuthorized(h.from, h.cfg) THEN Return(h)
        ELSE IF ~isBotMentioned /\ ~hasCommandPrefix THEN Return(h)
        ELSE IF Trim(messageContent) = <<>> THEN Return(h)
        ELSE Suspended([h EXCEPT !.pc = "n8n", !.isGroup = TRUE, !.content = messageContent,
                                 !.loaded = TRUE, !.readFailed = ~readOk, !.n8nCalls = @ + 1,
                                 !.conv = getConversation(fs, ConversationId(h.inst, h.from), readOk)])

\* handleIncomingMessage taking the command prefix off a direct message too.
StartStripsPrefix(h, fs, readOk) ==
    IF h.fromMe /\ ~IsTrue(h.cfg, "processSelfMessages") THEN Return(h)
    ELSE IF ~isUserAuthorized(h.from, h.cfg)
         THEN IF IsTrue(h.cfg, "notifyUnauthorized")
              THEN Suspended([h EXCEPT !.pc = "denyReply", !.out = DenialNotice])
              ELSE Return(h)
    ELSE IF Includes(h.from, "@g.us") THEN GroupStart(h, fs, readOk)
    ELSE LET messageContent == sanitizeInput(Trim(RemovePrefix(h.body, CommandPrefix(h.cfg))))
         IN  IF Trim(messageContent) = <<>> THEN Return(h)
             ELSE Suspended([h EXCEPT !.pc = "n8n", !.content = messageContent, !.loaded = TRUE,
                                      !.readFailed = ~readOk, !.n8nCalls = @ + 1,
                                      !.conv = getConversation(fs, ConversationId(h.inst, h.from), readOk)])

\* handleIncomingMessage from its entry to its first await.
Start(h, fs, readOk) ==
    IF h.fromMe /\ ~IsTrue(h.cfg, "processSelfMessages") THEN Return(h)
    ELSE IF ~isUserAuthorized(h.from, h.cfg)
         THEN IF IsTrue(h.cfg, "notifyUnauthorized")
              THEN Suspended([h EXCEPT !.pc = "denyReply", !.out = DenialNotice])
              ELSE Return(h)
    ELSE IF Includes(h.from, "@g.us") THEN GroupStart(h, fs, readOk)
    ELSE LET messageContent == sanitizeInput(h.body)
         IN  IF Trim(messageContent) = <<>> THEN Return(h)
             ELSE Suspended([h EXCEPT !.pc = "n8n", !.content = messageContent, !.loaded = TRUE,
                                      !.readFailed = ~readOk, !.n8nCalls = @ + 1,
                                      !.conv = getConversation(fs, ConversationId(h.inst, h.from), readOk)])

\* The continuation after `await sendMessageToN8n(...)`: the reply of the
\* output, or handleFallbackAi called from the else branch or from the catch
\* block.  n8nCalls and aiCalls count the calls of sendMessageToN8n and of
\* executeAiModel made so far; t1, t1out and t2 record how they ended.
AfterN8n(h, result) ==
    IF ~result.threw /\ Truthy(Field(result.data, "output"))
    THEN [h EXCEPT !.pc = "reply", !.where = "try", !.out = result.data.output,
                   !.t1 = "output", !.t1out = result.data.output]
    ELSE IF ~result.threw
    THEN [h EXCEPT !.pc = "ai", !.where = "try", !.t1 = "noOutput", !.aiCalls = @ + 1]
    ELSE [h EXCEPT !.pc = "ai", !.where = "catch", !.t1 = "threw", !.aiCalls = @ + 1]

\* The continuation after `await handleFallbackAi(...)`.
AfterAi(h, result) ==
    [h EXCEPT !.pc = "reply", !.out = handleFallbackAi(result),
              !.t2 = IF result.threw THEN "threw" ELSE "data"]

\* The {user, assistant} pair of the turn; a group turn names the author.
NewEntries(h) ==
    LET user == IF h.isGroup
                THEN [role |-> "user", content |-> h.content, author |-> AuthorId]
                ELSE [role |-> "user", content |-> h.content]
        assistant == [role |-> "assistant", content |-> h.out]
    IN  <<user, assistant>>

\* conversation.messages.push(user, assistant), then the trim.
Pushed(h) == SliceLast(h.conv \o NewEntries(h), MaxLength(h.cfg))

\* The record of what the saves have added to a file.
Logged(log, userId, entries) ==
    LET f == SafeName(userId)
    IN  [g \in (DOMAIN log) \cup {f} |->
            IF g = f THEN (IF f \in DOMAIN log THEN log[f] ELSE <<>>) \o entries ELSE log[g]]

\* The catch block at the top of the handler, once its own
\* `await message.reply(apology)` settles: a failed apology is logged only.
\* The top-level catch without a try around its apology reply.
OuterCatchRethrows(h, ok) ==
    IF ok THEN [h EXCEPT !.pc = "done", !.sent = Append(@, h.out)]
    ELSE [h EXCEPT !.pc = "done", !.raised = TRUE]

OuterCatch(h, ok) ==
    IF ok THEN [h EXCEPT !.pc = "done", !.sent = Append(@, h.out)]
    ELSE [h EXCEPT !.pc = "done"]

\* The handler saving the turn after the apology of the top-level catch too.
AfterReplySavesApology(h, ok) ==
    CASE h.pc = "reply" /\ ok ->
            [h EXCEPT !.pc = "save", !.sent = Append(@, h.out), !.conv = Pushed(h)]
      [] h.pc = "reply" /\ ~ok /\ h.where = "try" ->
            [h EXCEPT !.pc = "ai", !.where = "catch", !.aiCalls = @ + 1]
      [] h.pc = "reply" /\ ~ok /\ h.where # "try" ->
            [h EXCEPT !.pc = "apology", !.exc = TRUE, !.apology = TRUE,
                      !.out = IF h.isGroup THEN ApologyGroup ELSE ApologyDirect]
      [] h.pc = "denyReply" /\ ok ->
            [h EXCEPT !.pc = "done", !.sent = Append(@, h.out)]
      [] h.pc = "denyReply" /\ ~ok ->
            [h EXCEPT !.pc = "apology", !.exc = TRUE, !.apology = TRUE, !.out = ApologyDirect]
      [] h.pc = "apology" /\ ok ->
            [h EXCEPT !.pc = "save", !.sent = Append(@, h.out), !.conv = Pushed(h)]
      [] OTHER -> OuterCatch(h, ok)

\* The continuation after `await message.reply(...)` settles: ok when the
\* text was sent, ~ok when reply threw.
AfterReply(h, ok) ==
    CASE h.pc = "reply" /\ ok ->
            [h EXCEPT !.pc = "save", !.sent = Append(@, h.out), !.conv = Pushed(h)]
      [] h.pc = "reply" /\ ~ok /\ h.where = "try" ->
            [h EXCEPT !.pc = "ai", !.where = "catch", !.aiCalls = @ + 1]
      [] h.pc = "reply" /\ ~ok /\ h.where # "try" ->
            [h EXCEPT !.pc = "apology", !.exc = TRUE, !.apology = TRUE,
                      !.out = IF h.isGroup THEN ApologyGroup ELSE ApologyDirect]
      [] h.pc = "denyReply" /\ ok ->
            [h EXCEPT !.pc = "done", !.sent = Append(@, h.out)]
      [] h.pc = "denyReply" /\ ~ok ->
            [h EXCEPT !.pc = "apology", !.exc = TRUE, !.apology = TRUE, !.out = ApologyDirect]
      [] OTHER -> OuterCatch(h, ok)

\* What is kept of a call that has returned.
Returned(h) ==
    [inst |-> h.inst, cfg |-> h.cfg, from |-> h.from, fromMe |-> h.fromMe, isGroup |-> h.isGroup,
     n8nCalls |-> h.n8nCalls, aiCalls |-> h.aiCalls, t1 |-> h.t1, sent |-> h.sent,
     exc |-> h.exc, apology |-> h.apology, raised |-> h.raised,
     loaded |-> h.loaded, saved |-> h.saved]

\* ---------------------------------------------------------- createInstance

\* The config object createInstance builds, saves and hands to
\* initializeWhatsAppInstance: the options stay under `options`, and the
\* name of a request that gives none is the instance id.  The time of
\* creation is 0, a time before the run, where no clock is kept; the
\* updatedAt stamp, which saveInstanceConfig renews at every save, is left
\* out.
NewConfig(instanceId, n8nConfig, allowedUsers, allowedGroups, options) ==
    [instanceId |-> instanceId, name |-> instanceId, n8nConfig |-> n8nConfig,
     allowedUsers |-> allowedUsers, allowedGroups |-> allowedGroups, options |-> options,
     status |-> "CREATED", created |-> 0]

\* ------------------------------------------------------------------ actions

\* No request has been received and no Client has been constructed.
InitAdmin ==
    /\ calls = {}
    /\ handles = <<>>
    /\ responses = <<>>
    /\ sessionDirs = {}
    /\ qrFiles = {}
    /\ lastDestroy = [null |-> TRUE]

Init ==
    /\ store = [i \in Instances |-> NoConfig]
    /\ clientInstances = [i \in Instances |-> NoClient]
    /\ files = <<>>
    /\ appended = <<>>
    /\ handlers = {}
    /\ arrived = 0
    /\ last = NoHandler
    /\ arg = <<>>
    /\ res = <<>>
    /\ InitAdmin

\* POST /api/admin/instances answered 201: the config is saved and a client
\* with the event handlers closed over that config is registered.
CreateInstance(i, n8nConfig, allowedUsers, allowedGroups, options) ==
    /\ IsNull(store[i])
    /\ LET config == NewConfig(i, n8nConfig, allowedUsers, allowedGroups, options)
       IN  /\ store' = [store EXCEPT ![i] = config]
           /\ clientInstances' = [clientInstances EXCEPT ![i] = [config |-> config]]
    /\ UNCHANGED <<files, appended, handlers, arrived, last, arg, res>>
    /\ UNCHANGED adminVars

\* A message_create event of the client of instance i: handleIncomingMessage
\* runs to its first await, or returns.
MessageCreate(i, from, body, fromMe, mentioned, readOk) ==
    /\ ~IsNull(clientInstances[i])
    /\ arrived < MaxMessages
    /\ Cardinality(handlers) < MaxInflight
    /\ mentioned => Includes(from, "@g.us")
    /\ readOk \/ SafeName(ConversationId(i, from)) \in DOMAIN files
    /\ arrived' = arrived + 1
    /\ LET h == Start(NewHandler(arrived + 1, i, clientInstances[i].config, from, body, fromMe, mentioned),
                      files, readOk)
       IN  IF h.pc = "done"
           THEN handlers' = handlers /\ last' = Returned(h)
           ELSE handlers' = handlers \cup {h} /\ last' = last
    /\ UNCHANGED <<store, clientInstances, files, appended, arg, res>>
    /\ UNCHANGED adminVars

\* The Tier 1 call of handler h settles.
N8nSettled(h, post) ==
    /\ h \in handlers
    /\ h.pc = "n8n"
    /\ handlers' = (handlers \ {h}) \cup { AfterN8n(h, sendMessageToN8n(store[h.inst], post)) }
    /\ UNCHANGED <<store, clientInstances, files, appended, arrived, last, arg, res>>
    /\ UNCHANGED adminVars

\* The Tier 2 call of handler h, made inside handleFallbackAi, settles.
AiSettled(h, post) ==
    /\ h \in handlers
    /\ h.pc = "ai"
    /\ handlers' = (handlers \ {h}) \cup { AfterAi(h, executeAiModel(store[h.inst], post)) }
    /\ UNCHANGED <<store, clientInstances, files, appended, arrived, last, arg, res>>
    /\ UNCHANGED adminVars

\* A message.reply of handler h settles.  After an answer was sent the
\* handler saves the conversation and returns in the same turn.
ReplySettled(h, ok, writeOk) ==
    /\ h \in handlers
    /\ h.pc \in {"reply", "denyReply", "apology"}
    /\ writeOk \/ (h.pc = "reply" /\ ok)
    /\ LET g == AfterReply(h, ok)
       IN  IF g.pc = "save"
           THEN /\ files' = saveConversation(files, ConversationId(g.inst, g.from), g.conv, writeOk)
                /\ appended' = IF writeOk
                               THEN Logged(appended, ConversationId(g.inst, g.from), NewEntries(h))
                               ELSE appended
                /\ handlers' = handlers \ {h}
                /\ last' = Returned([g EXCEPT !.pc = "done", !.saved = writeOk])
           ELSE IF g.pc = "done"
           THEN /\ handlers' = handlers \ {h}
                /\ last' = Returned(g)
                /\ UNCHANGED <<files, appended>>
           ELSE /\ handlers' = (handlers \ {h}) \cup {g}
                /\ last' = last
                /\ UNCHANGED <<files, appended>>
    /\ UNCHANGED <<store, clientInstances, arrived, arg, res>>
    /\ UNCHANGED adminVars

Next ==
    \/ \E i \in Instances, n \in N8nConfigChoices, au \in AllowedUsersChoices,
          ag \in AllowedGroupsChoices, o \in OptionsChoices : CreateInstance(i, n, au, ag, o)
    \/ \E i \in Instances, from \in Senders, body \in Bodies, fromMe, mentioned, readOk \in BOOLEAN :
          MessageCreate(i, from, body, fromMe, mentioned, readOk)
    \/ \E h \in handlers, post \in RouterTier1Posts : N8nSettled(h, post)
    \/ \E h \in handlers, post \in RouterTier2Posts : AiSettled(h, post)
    \/ \E h \in handlers, ok, writeOk \in BOOLEAN : ReplySettled(h, ok, writeOk)

Spec == Init /\ [][Next]_vars

\* ---------------------------------------------- the router's properties

\* The name of the conversation file of a peer of an instance.
FileOf(i, peer) == SafeName(ConversationId(i, peer))

\* xs is the tail end of ys.
IsSuffix(xs, ys) == Len(xs) <= Len(ys) /\ xs = SubSeq(ys, Len(ys) - Len(xs) + 1, Len(ys))

\* C1: with options.maxConversationLength = N, every persisted conversation
\* of the instance holds at most N messages, and they are the most recently
\* appended ones in their original order.
C1_SlidingWindow ==
    \A i \in Instances, peer \in Senders :
        (~IsNull(store[i]) /\ FileOf(i, peer) \in DOMAIN files) =>
            /\ Len(files[FileOf(i, peer)]) <= store[i].options.maxConversationLength
            /\ IsSuffix(files[FileOf(i, peer)], appended[FileOf(i, peer)])

\* C2: when Tier 1 failed and Tier 2 failed, the pipeline hands the fixed
\* "technical difficulties" text to the handler, which goes on to send it:
\* no error reaches the handler's catch blocks from the pipeline.
C2_PipelineTotal ==
    \A h \in handlers :
        (h.t1 \in {"threw", "noOutput"} /\ h.t2 = "threw" /\ h.pc = "reply") =>
            (h.out = TechnicalDifficulties /\ ~h.exc /\ ~h.raised)

C2_Witness ==
    \E h \in handlers :
        /\ h.t1 = "threw" /\ h.t2 = "threw" /\ h.pc = "reply"
        /\ "fallbackWebhookPath" \notin DOMAIN store[h.inst].n8nConfig
        /\ h.out = TechnicalDifficulties

\* C3: once Tier 1 has returned a non-empty output, the text replied is that
\* output and executeAiModel is never called for the message, whatever
\* becomes of the send and of the save.
C3_Tier1Only ==
    /\ \A h \in handlers :
          h.t1 = "output" =>
              /\ h.aiCalls = 0
              /\ h.pc = "reply" => h.out = h.t1out
    /\ (~IsNull(last) /\ last.t1 = "output") => last.aiCalls = 0

\* C4: sendMessageToN8n is called at most once and executeAiModel at most
\* once for one inbound message, also when sending the reply fails.
C4_EachTierOnce ==
    /\ \A h \in handlers : h.n8nCalls <= 1 /\ h.aiCalls <= 1
    /\ ~IsNull(last) => (last.n8nCalls <= 1 /\ last.aiCalls <= 1)

\* C6: handleIncomingMessage never raises: every call returns normally, a
\* call in which an exception reached the top-level catch has attempted the
\* apology reply, and no step of a handler changes the runtime map or the
\* persisted config (and so the lifecycle status) of the instance.
C6_NeverRaises ==
    /\ [](/\ \A h \in handlers : ~h.raised /\ (h.exc => h.apology)
          /\ ~IsNull(last) => (~last.raised /\ (last.exc => last.apology)))
    /\ [][(handlers' # handlers \/ last' # last) =>
             (clientInstances' = clientInstances /\ store' = store)]_vars

\* Every reply of the call failed: the answer, the retry and the apology.
C6_Witness ==
    /\ ~IsNull(last)
    /\ last.exc /\ last.apology /\ ~last.raised
    /\ last.sent = <<>>
    /\ last.aiCalls >= 1

\* C7: for a denied sender no conversation is loaded or saved and no AI tier
\* is called; the denial notice is sent once when the instance's option
\* notifyUnauthorized is true, and nothing is sent when it is false.
C7_DenialNotice ==
    (~IsNull(last) /\ ~last.fromMe /\ ~isUserAuthorized(last.from, store[last.inst])) =>
        /\ ~last.loaded /\ ~last.saved
        /\ last.n8nCalls = 0 /\ last.aiCalls = 0
        /\ last.sent = IF store[last.inst].options.notifyUnauthorized
                       THEN <<DenialNotice>> ELSE <<>>

\* A group id that allowedGroups neither lists nor covers with "*".
GroupNotAllowed(id, config) ==
    /\ Includes(id, "@g.us")
    /\ id \notin config.allowedGroups
    /\ <<"*">> \notin config.allowedGroups

PipelineReply(config, post1, post2) ==
    LET h0 == [NewHandler(1, config.instanceId, config, UserA, <<"hello">>, FALSE, FALSE)
                  EXCEPT !.pc = "n8n", !.content = <<"hello">>, !.n8nCalls = 1]
        h1 == AfterN8n(h0, sendMessageToN8n(config, post1))
    IN  IF h1.pc = "reply" THEN h1.out
        ELSE AfterAi(h1, executeAiModel(config, post2)).out

PipelineConfigs ==
    { NewConfig(<<"bot1">>, n, { <<"*">> }, {}, o) : n \in N8nConfigChoices, o \in OptionsChoices }

InitPipeline ==
    /\ store = [i \in Instances |-> NoConfig]
    /\ clientInstances = [i \in Instances |-> NoClient]
    /\ files = <<>>
    /\ appended = <<>>
    /\ handlers = {}
    /\ arrived = 0
    /\ last = NoHandler
    /\ arg \in [config : PipelineConfigs, post1 : Tier1Posts, post2 : Tier2Posts]
    /\ res = [done |-> FALSE]
    /\ InitAdmin

RunPipeline ==
    /\ ~res.done
    /\ res' = [done |-> TRUE, value |-> PipelineReply(arg.config, arg.post1, arg.post2)]
    /\ UNCHANGED <<store, clientInstances, files, appended, handlers, arrived, last, arg>>
    /\ UNCHANGED adminVars

NextPipeline == RunPipeline

SpecPipeline == InitPipeline /\ [][NextPipeline]_vars

\* Tier 1 failed: the POST failed or timed out, the body was empty, or the
\* body had no output or an empty one.
Tier1Failed(post) ==
    \/ post.kind \in {"fail", "empty"}
    \/ post.kind = "data" /\ ("output" \notin DOMAIN post.data \/ post.data.output = "")

\* Tier 2 returned a response: there is a fallback path and the POST came
\* back with a body that has fields.
Tier2Responded(config, post) ==
    "fallbackWebhookPath" \in DOMAIN config.n8nConfig /\ post.kind = "data"

\* A response field that carries a text.
Present(v) == v # Undefined /\ v # ""

\* C5: when Tier 1 fails in any way and Tier 2 returns a response, the reply
\* is the first of the fields text, message, content that is present, a
\* field being present when it carries a non-empty text.
C5_FirstPresentField ==
    (res.done /\ Tier1Failed(arg.post1) /\ Tier2Responded(arg.config, arg.post2)) =>
        LET d == arg.post2.data
        IN  /\ Present(d.text) => res.value = d.text
            /\ (~Present(d.text) /\ Present(d.message)) => res.value = d.message
            /\ (~Present(d.text) /\ ~Present(d.message) /\ Present(d.content)) =>
                  res.value = d.content

\* Tier 1 timed out, text is missing and message and content are there: the
\* reply is the message field.
C5_Witness ==
    /\ res.done
    /\ arg.post1.kind = "fail"
    /\ Tier2Responded(arg.config, arg.post2)
    /\ arg.post2.data.text = Undefined
    /\ Present(arg.post2.data.message) /\ Present(arg.post2.data.content)
    /\ res.value = arg.post2.data.message

\* -------------------------------------------- isUserAuthorized on its own

\* The ids asked about: numbers with and without the suffix, one written
\* in two tokens, and group ids.
AuthIds ==
    { <<"5551234567">>, <<"5551234567", "@c.us">>, <<"5559999999", "@c.us">>,
      <<"555", "1234567", "@c.us">>, <<"g1", "@g.us">>, <<"g2", "@g.us">> }

\* The allowedUsers lists an admin may have saved: the wildcard, numbers
\* with and without the suffix, and an entry with "@c.us" inside it.
AuthUserLists ==
    SUBSET { <<"*">>, <<"5551234567">>, <<"5559999999", "@c.us">>, <<"555", "@c.us", "1234567">> }
AuthGroupLists == SUBSET { <<"*">>, <<"g1", "@g.us">> }

AuthConfigs ==
    { NoConfig } \cup
    { [allowedUsers |-> au] : au \in AuthUserLists } \cup
    { [allowedGroups |-> ag] : ag \in AuthGroupLists } \cup
    { [allowedUsers |-> au, allowedGroups |-> ag] : au \in AuthUserLists, ag \in AuthGroupLists }

InitAuth ==
    /\ store = [i \in Instances |-> NoConfig]
    /\ clientInstances = [i \in Instances |-> NoClient]
    /\ files = <<>>
    /\ appended = <<>>
    /\ handlers = {}
    /\ arrived = 0
    /\ last = NoHandler
    /\ arg \in [id : AuthIds, config : AuthConfigs]
    /\ res = [done |-> FALSE]
    /\ InitAdmin

Authorize ==
    /\ ~res.done
    /\ res' = [done |-> TRUE, value |-> isUserAuthorized(arg.id, arg.config)]
    /\ UNCHANGED <<store, clientInstances, files, appended, handlers, arrived, last, arg>>
    /\ UNCHANGED adminVars

NextAuth == Authorize

SpecAuth == InitAuth /\ [][NextAuth]_vars

\* C9: isUserAuthorized is true for every id when allowedUsers contains "*",
\* and false for every id when the config is {allowedUsers: []}.
C9_WildcardAndEmpty ==
    res.done =>
        /\ ("allowedUsers" \in DOMAIN arg.config /\ <<"*">> \in arg.config.allowedUsers) => res.value
        /\ arg.config = [allowedUsers |-> {}] => ~res.value

\* A group id that allowedGroups does not list is let in by the user wildcard.
C9_Witness ==
    /\ res.done
    /\ arg.id = <<"g2", "@g.us">>
    /\ arg.config = [allowedUsers |-> { <<"*">> }, allowedGroups |-> { <<"g1", "@g.us">> }]
    /\ res.value

\* ----------------------------------------------- sanitizeInput on its own

\* The tag-like markers and the plain text an input is made of.
Markers ==
    { <<"<", "scr", "ipt", ">">>, <<"<", "/", "scr", "ipt", ">">>, <<"<", "form", ">">>, <<"a">> }

InsertAt(s, k, m) == SubSeq(s, 1, k) \o m \o SubSeq(s, k + 1, Len(s))

Sanitized(x) == [once |-> sanitizeInput(x), twice |-> sanitizeInput(sanitizeInput(x))]

InitSanitize ==
    /\ store = [i \in Instances |-> NoConfig]
    /\ clientInstances = [i \in Instances |-> NoClient]
    /\ files = <<>>
    /\ appended = <<>>
    /\ handlers = {}
    /\ arrived = 0
    /\ last = NoHandler
    /\ arg = <<>>
    /\ res = Sanitized(<<>>)
    /\ InitAdmin

\* The input grows by a marker put anywhere in it, inside another marker
\* included, and is sanitized once and twice.
InsertMarker(m, k) ==
    /\ Len(arg) + Len(m) <= MaxInputLen
    /\ arg' = InsertAt(arg, k, m)
    /\ res' = Sanitized(arg')
    /\ UNCHANGED <<store, clientInstances, files, appended, handlers, arrived, last>>
    /\ UNCHANGED adminVars

NextSanitize == \E m \in Markers, k \in 0..Len(arg) : InsertMarker(m, k)

SpecSanitize == InitSanitize /\ [][NextSanitize]_vars

\* C10: sanitizeInput(sanitizeInput(x)) = sanitizeInput(x) for every input.
C10_Idempotent == res.twice = res.once

\* ------------------------------------------------- instance lifecycle

\* What the REST handlers and the WhatsApp service read and write.
World == [store |-> store, clientInstances |-> clientInstances, handles |-> handles,
          sessionDirs |-> sessionDirs, qrFiles |-> qrFiles]

\* updateInstanceStatus: read the config, set its status, write it back; an
\* instance without a config file is left without one.
updateInstanceStatus(st, instanceId, status) ==
    IF IsNull(st[instanceId]) THEN st
    ELSE [st EXCEPT ![instanceId] = [@ EXCEPT !.status = status]]

\* A Client as new Client(...) makes it.  Beside the instance and the config
\* its listeners close over, the record keeps what happened to the Client:
\* whether the runtime map had no entry when it was made (fresh), whether its
\* initialize() is still awaited (pending) and whether it threw (raised), the
\* events it emitted (fired, last, disconnects), the reconnect timers of its
\* disconnected listener that have not fired yet (timers), the
\* initialize() calls those timers made (connects), and whether the pairing
\* artifact of its instance, when there is one, was written by its qr
\* listener (wrote).
NewClient(w, instanceId, config) ==
    [inst |-> instanceId, config |-> config, live |-> TRUE, pending |-> TRUE, fired |-> 0,
     fresh |-> IsNull(w.clientInstances[instanceId]), raised |-> FALSE, last |-> "none",
     disconnects |-> 0, timers |-> 0, connects |-> 0, wrote |-> FALSE]

\* initializeWhatsAppInstance up to its await: the session directory is
\* made, a new Client takes the instance's place in the runtime map, whatever
\* was there, and its event handlers close over config.
initializeWhatsAppInstance(w, instanceId, config) ==
    LET k == Len(w.handles) + 1
    IN  [w EXCEPT !.sessionDirs = @ \cup {instanceId},
                  !.handles = Append(@, NewClient(w, instanceId, config)),
                  !.clientInstances = [@ EXCEPT ![instanceId] = [config |-> config, handle |-> k]]]

\* destroyClientInstance after its await of client.destroy(): when the
\* teardown succeeded the entry of the instance is deleted and the status is
\* set; when it threw, the catch block logs and returns false.
destroyClientInstance(w, instanceId, k, ok) ==
    IF ok
    THEN [w EXCEPT !.handles = [@ EXCEPT ![k] = [@ EXCEPT !.live = FALSE]],
                   !.clientInstances = [@ EXCEPT ![instanceId] = NoClient],
                   !.store = updateInstanceStatus(@, instanceId, "DESTROYED")]
    ELSE w

\* deleteInstance after the destroy: the config file and the session
\* directory are removed.
Deleted(w, instanceId) ==
    [w EXCEPT !.store = [@ EXCEPT ![instanceId] = NoConfig],
              !.sessionDirs = @ \ {instanceId},
              !.qrFiles = @ \ {instanceId}]

\* The status a lifecycle event of a Client sets.
EventStatus(ev) ==
    CASE ev = "qr" -> "WAITING_FOR_QR_SCAN"
      [] ev = "authenticated" -> "AUTHENTICATED"
      [] ev = "auth_failure" -> "AUTH_FAILURE"
      [] ev = "ready" -> "CONNECTED"
      [] ev = "disconnected" -> "DISCONNECTED"

Events == { "qr", "authenticated", "auth_failure", "ready", "disconnected" }

\* The qr listener writes the pairing artifact with writeFileSync before
\* anything else, and throws when the session directory is gone.
Throws(w, k, ev) == ev = "qr" /\ w.handles[k].inst \notin w.sessionDirs

\* The Clients after a listener of Client k has written (qr) or removed
\* (ready) the pairing artifact of its instance.
ArtifactBy(hs, k, ev) ==
    [j \in 1..Len(hs) |->
        IF hs[j].inst # hs[k].inst \/ ev \notin {"qr", "ready"} THEN hs[j]
        ELSE [hs[j] EXCEPT !.wrote = (j = k /\ ev = "qr")]]

\* Listeners whose ready listener leaves the pairing artifact where it is.
ListenedKeepsArtifact(w, k, ev) ==
    LET i == w.handles[k].inst
        u == [w EXCEPT !.handles = [@ EXCEPT ![k] =
                 [@ EXCEPT !.fired = @ + 1, !.last = ev,
                           !.disconnects = IF ev = "disconnected" THEN @ + 1 ELSE @,
                           !.timers = IF ev = "disconnected" THEN @ + 1 ELSE @]]]
    IN  IF Throws(w, k, ev) THEN u
        ELSE [u EXCEPT !.qrFiles = IF ev = "qr" THEN @ \cup {i} ELSE @,
                       !.handles = ArtifactBy(@, k, ev)]

\* Listeners whose disconnected listener sets two timers.
ListenedTwoTimers(w, k, ev) ==
    LET i == w.handles[k].inst
        u == [w EXCEPT !.handles = [@ EXCEPT ![k] =
                 [@ EXCEPT !.fired = @ + 1, !.last = ev,
                           !.disconnects = IF ev = "disconnected" THEN @ + 1 ELSE @,
                           !.timers = IF ev = "disconnected" THEN @ + 2 ELSE @]]]
    IN  IF Throws(w, k, ev) THEN u
        ELSE [u EXCEPT !.qrFiles = IF ev = "qr" THEN @ \cup {i}
                                   ELSE IF ev = "ready" THEN @ \ {i} ELSE @,
                       !.handles = ArtifactBy(@, k, ev)]

\* What a listener of setupEventHandlers does besides its call of
\* updateInstanceStatus: the qr listener writes the pairing artifact, the
\* ready listener removes it, and the disconnected listener sets a timer
\* that will call client.initialize().
Listened(w, k, ev) ==
    LET i == w.handles[k].inst
        u == [w EXCEPT !.handles = [@ EXCEPT ![k] =
                 [@ EXCEPT !.fired = @ + 1, !.last = ev,
                           !.disconnects = IF ev = "disconnected" THEN @ + 1 ELSE @,
                           !.timers = IF ev = "disconnected" THEN @ + 1 ELSE @]]]
    IN  IF Throws(w, k, ev) THEN u
        ELSE [u EXCEPT !.qrFiles = IF ev = "qr" THEN @ \cup {i}
                                   ELSE IF ev = "ready" THEN @ \ {i} ELSE @,
                       !.handles = ArtifactBy(@, k, ev)]

\* A listener of setupEventHandlers, with its status update.
Emitted(w, k, ev) ==
    LET u == Listened(w, k, ev)
    IN  IF Throws(w, k, ev) THEN u
        ELSE [u EXCEPT !.store = updateInstanceStatus(@, w.handles[k].inst, EventStatus(ev))]

\* The number of the next request.
NextCall == Len(responses) + Cardinality(calls) + 1

\* new Date() of a request, as the number of the request.
Now == NextCall

\* A call frame of a REST handler.
NewCall(op, instanceId, config) ==
    [n |-> NextCall, op |-> op, inst |-> instanceId, config |-> config, pc |-> "start",
     target |-> 0, early |-> FALSE]

Response(c, code) == [n |-> c.n, op |-> c.op, inst |-> c.inst, code |-> code]

\* The world is written back; the router's state and the studied function's
\* are not touched.
Apply(w) ==
    /\ Len(w.handles) <= MaxHandles
    /\ store' = w.store
    /\ clientInstances' = w.clientInstances
    /\ handles' = w.handles
    /\ sessionDirs' = w.sessionDirs
    /\ qrFiles' = w.qrFiles
    /\ UNCHANGED <<routerVars, arg, res>>

\* The handler answers and its call is over.
Respond(c, code) ==
    /\ calls' = calls \ {c}
    /\ responses' = Append(responses, Response(c, code))

\* The handler waits for a promise of Client k, or of the probe.
Suspend(c, pc, k) ==
    /\ calls' = (calls \ {c}) \cup { [c EXCEPT !.pc = pc, !.target = k] }
    /\ responses' = responses

\* The handler calls destroyClientInstance, which finds the Client of the
\* instance and waits for its destroy().
SuspendInDestroy(c) ==
    LET k == clientInstances[c.inst].handle
    IN  /\ calls' = (calls \ {c}) \cup
                    { [c EXCEPT !.pc = "destroy", !.target = k,
                                !.early = handles[k].pending /\ handles[k].fired = 0] }
        /\ responses' = responses

\* /^[a-zA-Z0-9-_]+$/
ValidInstanceId(id) ==
    /\ id # <<>>
    /\ \A k \in 1..Len(id) : id[k] \notin {".", " ", "/", "*", "<", ">", "@c.us", "@g.us"}

\* req.body.instanceId of a create request: an id, none, and an id with a dot.
CreateIds == Instances \cup { <<>>, <<"bot", ".", "1">> }

\* req.body.n8nConfig of a create request in the lifecycle runs: complete,
\* and without a webhook path.
CreateN8nConfigs ==
    { [baseUrl |-> "http://n8n", webhookPath |-> "webhook/whatsapp-ai-bot"],
      [baseUrl |-> "http://n8n"] }

\* The checks of createInstance before the reachability probe: the status
\* code of the rejection, or 0 when the request passes them.
CreateChecks(st, id, n8nConfig) ==
    IF id = <<>> \/ "baseUrl" \notin DOMAIN n8nConfig \/ "webhookPath" \notin DOMAIN n8nConfig
    THEN 400
    ELSE IF ~ValidInstanceId(id) THEN 400
    ELSE IF ~IsNull(st[id]) THEN 409
    ELSE 0

\* createInstance saving the config before it looks at the probe's outcome.
ProbedSavesFirst(w, c, ok) ==
    LET v == [w EXCEPT !.store = [@ EXCEPT ![c.inst] = c.config]]
    IN  IF ok THEN initializeWhatsAppInstance(v, c.inst, c.config) ELSE v

\* createInstance after the probe: a reachable n8n has the config saved and
\* the Client constructed; an unreachable one leaves everything as it is.
Probed(w, c, ok) ==
    IF ok
    THEN initializeWhatsAppInstance([w EXCEPT !.store = [@ EXCEPT ![c.inst] = c.config]],
                                    c.inst, c.config)
    ELSE w

\* POST /api/admin/instances: createInstance up to its probe of baseUrl.
CreateRequest(id, n8nConfig, allowedUsers, allowedGroups, options) ==
    /\ NextCall <= MaxCalls
    /\ LET c == NewCall("create", id,
                        [NewConfig(id, n8nConfig, allowedUsers, allowedGroups, options)
                            EXCEPT !.created = Now])
           code == CreateChecks(store, id, n8nConfig)
       IN  IF code = 0 THEN Suspend(c, "probe", 0) ELSE Respond(c, code)
    /\ UNCHANGED <<store, clientInstances, handles, sessionDirs, qrFiles, lastDestroy>>
    /\ UNCHANGED <<routerVars, arg, res>>

\* The probe of createInstance settles.
ProbeSettled(c, ok) ==
    /\ c \in calls /\ c.pc = "probe"
    /\ LET w == Probed(World, c, ok)
       IN  /\ Apply(w)
           /\ IF ok THEN Suspend(c, "init", Len(w.handles)) ELSE Respond(c, 400)
    /\ UNCHANGED lastDestroy

\* POST /api/admin/instances/:instanceId/restart up to its first await.
RestartRequest(i) ==
    /\ NextCall <= MaxCalls
    /\ LET c == NewCall("restart", i, store[i])
       IN  IF IsNull(store[i]) THEN Respond(c, 404) /\ Apply(World)
           ELSE IF ~IsNull(clientInstances[i]) THEN SuspendInDestroy(c) /\ Apply(World)
           ELSE LET w == initializeWhatsAppInstance(World, i, store[i])
                IN  Suspend(c, "init", Len(w.handles)) /\ Apply(w)
    /\ UNCHANGED lastDestroy

\* DELETE /api/admin/instances/:instanceId up to its first await.
DeleteRequest(i) ==
    /\ NextCall <= MaxCalls
    /\ LET c == NewCall("delete", i, store[i])
       IN  IF IsNull(store[i]) THEN Respond(c, 404) /\ Apply(World)
           ELSE IF ~IsNull(clientInstances[i]) THEN SuspendInDestroy(c) /\ Apply(World)
           ELSE Respond(c, 200) /\ Apply(Deleted(World, i))
    /\ UNCHANGED lastDestroy

\* GET /api/instances/:instanceId/qr up to its first await.
QrRequest(i) ==
    /\ NextCall <= MaxCalls
    /\ LET c == NewCall("qr", i, store[i])
       IN  IF IsNull(store[i]) THEN Respond(c, 404) /\ Apply(World)
           ELSE IF ~IsNull(clientInstances[i])
           THEN Suspend(c, "state", clientInstances[i].handle) /\ Apply(World)
           ELSE LET w == initializeWhatsAppInstance(World, i, store[i])
                IN  Suspend(c, "init", Len(w.handles)) /\ Apply(w)
    /\ UNCHANGED lastDestroy

\* What destroyClientInstance left behind when it returned.
Left(w, c, ok) ==
    [inst |-> c.inst, returned |-> ok, early |-> c.early,
     entry |-> ~IsNull(w.clientInstances[c.inst]),
     status |-> IF IsNull(w.store[c.inst]) THEN "none" ELSE w.store[c.inst].status]

\* client.destroy() of a destroyClientInstance call settles, and the caller
\* goes on: restartInstance and updateInstance to the new Client,
\* deleteInstance to its answer.
DestroySettled(c, ok) ==
    /\ c \in calls /\ c.pc = "destroy"
    /\ LET w == destroyClientInstance(World, c.inst, c.target, ok)
       IN  /\ lastDestroy' = Left(w, c, ok)
           /\ IF c.op \in {"restart", "update"}
              THEN LET v == initializeWhatsAppInstance(w, c.inst, c.config)
                   IN  Suspend(c, "init", Len(v.handles)) /\ Apply(v)
              ELSE Respond(c, 200) /\ Apply(Deleted(w, c.inst))

\* The answer of getInstanceQr once the state of the Client is known.
QrCode(state, hasQr) == IF state = "CONNECTED" \/ hasQr THEN 200 ELSE 202

\* The status of that answer; the pending one carries the text of the
\* pairing artifact.
QrStatus(state, hasQr) ==
    IF state = "CONNECTED" THEN "connected"
    ELSE IF hasQr THEN "pending" ELSE "initializing"

\* getInstanceQr answers with the code and the status.
RespondQr(c, state, hasQr) ==
    /\ calls' = calls \ {c}
    /\ responses' = Append(responses, [n |-> c.n, op |-> c.op, inst |-> c.inst,
                                       code |-> QrCode(state, hasQr),
                                       status |-> QrStatus(state, hasQr)])

\* client.initialize() of an initializeWhatsAppInstance call settles, and
\* the caller goes on.
InitSettled(c, ok) ==
    /\ c \in calls /\ c.pc = "init"
    /\ Apply([World EXCEPT !.handles = [@ EXCEPT ![c.target] =
                                [@ EXCEPT !.pending = FALSE, !.raised = ~ok]]])
    /\ CASE c.op = "create" -> Respond(c, 201)
         [] c.op \in {"restart", "update"} -> Respond(c, IF ok THEN 200 ELSE 500)
         [] c.op = "qr" /\ ~ok -> Respond(c, 500)
         [] c.op = "qr" /\ ok /\ IsNull(clientInstances[c.inst]) ->
                RespondQr(c, "NOT_INITIALIZED", c.inst \in qrFiles)
         [] OTHER -> Suspend(c, "state", clientInstances[c.inst].handle)
    /\ UNCHANGED lastDestroy

\* client.getState() of a getInstanceQr call settles; a failure is reported
\* by getClientState as the state ERROR.
StateSettled(c, state) ==
    /\ c \in calls /\ c.pc = "state"
    /\ RespondQr(c, state, c.inst \in qrFiles)
    /\ Apply(World)
    /\ UNCHANGED lastDestroy

\* The lifecycle events emitted so far by the first k Clients.
RECURSIVE EventsFired(_)
EventsFired(k) == IF k = 0 THEN 0 ELSE handles[k].fired + EventsFired(k - 1)

\* The events and the Client states the lifecycle runs are driven with.
EventChoices == { "qr", "ready", "auth_failure" }
StateChoices == { "CONNECTED", "ERROR" }

\* A Client that was not destroyed emits a lifecycle event.
LifecycleEvent(k, ev) ==
    /\ k \in 1..Len(handles)
    /\ handles[k].live
    /\ EventsFired(Len(handles)) < MaxEvents
    /\ Apply(Emitted(World, k, ev))
    /\ UNCHANGED <<calls, responses, lastDestroy>>

NextLifecycle ==
    \/ \E id \in CreateIds, n \in CreateN8nConfigs :
          CreateRequest(id, n, { <<"*">> }, {}, CHOOSE o \in OptionsChoices : o.notifyUnauthorized)
    \/ \E c \in calls, ok \in BOOLEAN : ProbeSettled(c, ok)
    \/ \E i \in Instances : RestartRequest(i)
    \/ \E i \in Instances : DeleteRequest(i)
    \/ \E i \in Instances : QrRequest(i)
    \/ \E c \in calls, ok \in BOOLEAN : DestroySettled(c, ok)
    \/ \E c \in calls, ok \in BOOLEAN : InitSettled(c, ok)
    \/ \E c \in calls, state \in StateChoices : StateSettled(c, state)
    \/ \E k \in 1..Len(handles), ev \in EventChoices : LifecycleEvent(k, ev)

SpecLifecycle == Init /\ [][NextLifecycle]_vars

\* ------------------------------------------- the lifecycle's properties

\* C11: when destroyClientInstance returns for an instance that has a
\* persisted config, the runtime map has no entry for the instance and the
\* persisted status is DESTROYED, also when client.destroy() failed.
C11_DestroyCleansUp ==
    (~IsNull(lastDestroy) /\ lastDestroy.status # "none") =>
        (~lastDestroy.entry /\ lastDestroy.status = "DESTROYED")

\* C12: a destroy invoked while the init of the Client was still pending and
\* before any lifecycle event of that Client fired leaves no runtime entry
\* and the persisted status DESTROYED.
C12_InitThenDestroy ==
    (~IsNull(lastDestroy) /\ lastDestroy.early /\ lastDestroy.status # "none") =>
        (~lastDestroy.entry /\ lastDestroy.status = "DESTROYED")

\* A call that is inside a lifecycle operation: probing for a create, or
\* waiting for a destroy() or an initialize().
InLifecycle(c) == c.pc \in {"probe", "destroy", "init"}

\* C13: at most one lifecycle operation is in flight per instance id: no two
\* calls for the same instance are inside a lifecycle operation at once.
C13_OneLifecycleOperation ==
    \A c1, c2 \in calls :
        (c1.inst = c2.inst /\ InLifecycle(c1) /\ InLifecycle(c2)) => c1 = c2

\* The create requests for instance i answered 201.
Created(i) == { k \in 1..Len(responses) :
                   responses[k].op = "create" /\ responses[k].inst = i /\ responses[k].code = 201 }

\* No delete request for instance i was received.
NeverDeleted(i) ==
    /\ \A k \in 1..Len(responses) : ~(responses[k].op = "delete" /\ responses[k].inst = i)
    /\ \A c \in calls : ~(c.op = "delete" /\ c.inst = i)

\* C14: of the create requests for one instance id that is never deleted, at
\* most one is answered 201.
C14_CreateUnique ==
    \A i \in Instances : NeverDeleted(i) => Cardinality(Created(i)) <= 1

\* The step answers a create request with 400 or 409.
CreateRejected ==
    /\ Len(responses') = Len(responses) + 1
    /\ responses'[Len(responses')].op = "create"
    /\ responses'[Len(responses')].code \in {400, 409}

\* The step takes a create request up to its probe.
CreateProbing ==
    \E c \in calls' \ calls : c.op = "create" /\ c.pc = "probe"

\* C15: a create request that is rejected with 400 or 409 leaves the config
\* store and the runtime map as they were and constructs no Client, in the
\* step that rejects it and in the step that took it to the probe.
C15_RejectedCreateWritesNothing ==
    [][(CreateRejected \/ CreateProbing) =>
          (store' = store /\ clientInstances' = clientInstances /\ handles' = handles)]_vars

\* A create for an existing instance was rejected with 409, and a create
\* with a well-formed id was rejected with 400.
C15_Witness ==
    /\ \E k \in 1..Len(responses) :
          responses[k].op = "create" /\ responses[k].code = 409
    /\ \E k \in 1..Len(responses) :
          /\ responses[k].op = "create" /\ responses[k].code = 400
          /\ responses[k].inst \in Instances
    /\ \E i \in Instances : ~IsNull(store[i])

\* ------------------------------------------------------- outbound webhook

\* The number of decimal digits of a token made of digits, -1 for any other.
DigitLen(tok) ==
    CASE tok = "5551234567" -> 10
      [] tok = "890123" -> 6
      [] tok = "55512" -> 5
      [] tok = "34567" -> 5
      [] tok = "555" -> 3
      [] OTHER -> -1

RECURSIVE DigitCount(_)
DigitCount(s) == IF s = <<>> THEN 0 ELSE DigitLen(Head(s)) + DigitCount(Tail(s))

\* /^\d{10,}$/ : isValidPhoneNumber without the upper limit of 15 digits.
isValidPhoneNumberNoMax(phoneNumber) ==
    LET number == ReplaceFirst(phoneNumber, "@c.us")
    IN  /\ \A k \in 1..Len(number) : DigitLen(number[k]) >= 0
        /\ DigitCount(number) >= 10

\* isValidPhoneNumber: the first "@c.us" is removed, wherever it is, and the
\* rest is matched against /^\d{10,15}$/.
isValidPhoneNumber(phoneNumber) ==
    LET number == ReplaceFirst(phoneNumber, "@c.us")
    IN  /\ \A k \in 1..Len(number) : DigitLen(number[k]) >= 0
        /\ DigitCount(number) >= 10 /\ DigitCount(number) <= 15

\* req.body.to and req.body.message of a webhook request; <<>> is a field
\* that is missing or empty.
ToChoices ==
    { <<>>, <<"5551234567">>, <<"5551234567", "@c.us">>, <<"abc">>, <<"555">>,
      <<"5551234567", "890123">>, <<"55512", "@c.us", "34567">>,
      <<"5551234567", "<", "form", ">">> }
MessageChoices == { <<>>, <<"hello">>, <<"<", "scr", "ipt", ">">> }

\* A request body that is not an object.
NoBody == [null |-> TRUE]
Requests == { NoBody } \cup [to : ToChoices, message : MessageChoices]

\* What webhookHandler comes to before it sends: the status code and error
\* of a rejection, or code 0 and the number and text to send.
WebhookChecks(st, cl, instanceId, body) ==
    IF IsNull(st[instanceId]) THEN [code |-> 404, error |-> "Instance not found"]
    ELSE IF IsNull(cl[instanceId])
    THEN [code |-> 503, error |-> "WhatsApp client not initialized for this instance"]
    ELSE IF IsNull(body) THEN [code |-> 400, error |-> "Invalid request body"]
    ELSE IF body.to = <<>> \/ body.message = <<>>
    THEN [code |-> 400, error |-> "Missing required fields: to and message"]
    ELSE IF ~isValidPhoneNumber(sanitizeInput(body.to))
    THEN [code |-> 400, error |-> "Invalid phone number format"]
    ELSE [code |-> 0,
          to |-> IF Includes(sanitizeInput(body.to), "@c.us") THEN sanitizeInput(body.to)
                 ELSE sanitizeInput(body.to) \o <<"@c.us">>,
          message |-> sanitizeInput(body.message)]

\* The worlds a webhook request can find: no instance; an instance with its
\* Client; an instance whose Client was destroyed; a Client whose instance
\* was deleted after a failed destroy.
EmptyWorld ==
    [store |-> [i \in Instances |-> NoConfig], clientInstances |-> [i \in Instances |-> NoClient],
     handles |-> <<>>, sessionDirs |-> {}, qrFiles |-> {}]

WebhookWorlds ==
    LET i == CHOOSE j \in Instances : TRUE
        config == NewConfig(i, CHOOSE n \in N8nConfigChoices : TRUE, { <<"*">> }, {},
                            CHOOSE o \in OptionsChoices : TRUE)
        created == initializeWhatsAppInstance(
                       [EmptyWorld EXCEPT !.store = [@ EXCEPT ![i] = config]], i, config)
    IN  { EmptyWorld, created, destroyClientInstance(created, i, 1, TRUE), Deleted(created, i) }

InitWebhook ==
    /\ \E w \in WebhookWorlds :
          /\ store = w.store
          /\ clientInstances = w.clientInstances
          /\ handles = w.handles
          /\ sessionDirs = w.sessionDirs
          /\ qrFiles = w.qrFiles
    /\ files = <<>>
    /\ appended = <<>>
    /\ handlers = {}
    /\ arrived = 0
    /\ last = NoHandler
    /\ arg \in Requests
    /\ res = <<>>
    /\ calls = {}
    /\ responses = <<>>
    /\ lastDestroy = [null |-> TRUE]

\* The response of webhookHandler, with the calls of client.sendMessage made
\* for the request.
WebhookResponse(c, code, error, sends) ==
    Response(c, code) @@ [error |-> error, sends |-> sends]

\* POST /api/webhook/:instanceId with body arg: webhookHandler up to its
\* await of client.sendMessage, or to its rejection.
WebhookRequest(i) ==
    /\ NextCall <= MaxCalls
    /\ LET c == NewCall("send", i, store[i])
           r == WebhookChecks(store, clientInstances, i, arg)
       IN  IF r.code = 0
           THEN /\ calls' = calls \cup { [c EXCEPT !.pc = "send"] @@ [to |-> r.to, message |-> r.message] }
                /\ responses' = responses
           ELSE /\ calls' = calls
                /\ responses' = Append(responses, WebhookResponse(c, r.code, r.error, 0))
    /\ UNCHANGED <<store, clientInstances, handles, sessionDirs, qrFiles, lastDestroy>>
    /\ UNCHANGED <<routerVars, arg, res>>

\* client.sendMessage of a webhook call settles.
SendSettled(c, ok) ==
    /\ c \in calls /\ c.pc = "send"
    /\ calls' = calls \ {c}
    /\ responses' = Append(responses,
                           IF ok THEN WebhookResponse(c, 200, "", 1)
                           ELSE WebhookResponse(c, 500, "Failed to send message", 1))
    /\ UNCHANGED <<store, clientInstances, handles, sessionDirs, qrFiles, lastDestroy>>
    /\ UNCHANGED <<routerVars, arg, res>>

NextWebhook ==
    \/ \E i \in Instances : WebhookRequest(i)
    \/ \E c \in calls, ok \in BOOLEAN : SendSettled(c, ok)

SpecWebhook == InitWebhook /\ [][NextWebhook]_vars

\* --------------------------------------------- the webhook's properties

\* Ten to fifteen digits and nothing else.
TenToFifteenDigits(s) ==
    /\ \A k \in 1..Len(s) : DigitLen(s[k]) >= 0
    /\ DigitCount(s) \in 10..15

\* The status codes the precedence of the outbound send allows for a request.
ExpectedCodes(i, body) ==
    IF IsNull(store[i]) THEN {404}
    ELSE IF IsNull(clientInstances[i]) THEN {503}
    ELSE IF IsNull(body) THEN {400}
    ELSE IF body.to = <<>> \/ body.message = <<>> THEN {400}
    ELSE IF ~TenToFifteenDigits(ReplaceFirst(sanitizeInput(body.to), "@c.us")) THEN {400}
    ELSE {200, 500}

\* The request got past the checks on its fields and fails on the number.
BadNumber(i, body) ==
    /\ ~IsNull(store[i]) /\ ~IsNull(clientInstances[i])
    /\ ~IsNull(body) /\ body.to # <<>> /\ body.message # <<>>
    /\ ~TenToFifteenDigits(ReplaceFirst(sanitizeInput(body.to), "@c.us"))

NumberThenSuffix(s) ==
    \/ TenToFifteenDigits(s)
    \/ Len(s) >= 2 /\ s[Len(s)] = "@c.us" /\ TenToFifteenDigits(SubSeq(s, 1, Len(s) - 1))

\* The conditions under which the send primitive may be invoked.
MaySend(i, body) ==
    /\ ~IsNull(store[i]) /\ ~IsNull(clientInstances[i])
    /\ ~IsNull(body) /\ NumberThenSuffix(sanitizeInput(body.to))

\* C17: client.sendMessage is invoked at most once per request, only for an
\* instance with a config and a runtime entry and a sanitized `to` of ten to
\* fifteen digits optionally followed by the suffix, and never for a
\* request that is rejected.
C17_SendOnlyWhenValid ==
    /\ \A c \in calls : c.pc = "send" => MaySend(c.inst, arg)
    /\ \A k \in 1..Len(responses) :
          /\ responses[k].sends <= 1
          /\ responses[k].sends = 1 => MaySend(responses[k].inst, arg)
          /\ responses[k].code \in {400, 404, 503} => responses[k].sends = 0

\* ------------------------------------------------- the credential checks

\* validateApiKey: what the middleware does with the request.
validateApiKey(env, headers) ==
    IF ~Truthy(env.API_KEY) THEN [next |-> TRUE, code |-> 0]
    ELSE IF ~Truthy(headers.xApiKey) THEN [next |-> FALSE, code |-> 401]
    ELSE IF headers.xApiKey # env.API_KEY THEN [next |-> FALSE, code |-> 401]
    ELSE [next |-> TRUE, code |-> 0]

\* validateAdminKey: what the middleware does with the request.
validateAdminKey(env, headers) ==
    IF ~Truthy(env.ADMIN_API_KEY)
    THEN IF env.NODE_ENV = "development" THEN [next |-> TRUE, code |-> 0]
         ELSE [next |-> FALSE, code |-> 500]
    ELSE IF ~Truthy(headers.xAdminKey) THEN [next |-> FALSE, code |-> 401]
    ELSE IF headers.xAdminKey # env.ADMIN_API_KEY THEN [next |-> FALSE, code |-> 401]
    ELSE [next |-> TRUE, code |-> 0]

\* The routes of registerInstanceRoutes and registerWebhookRoutes with the
\* middleware each is registered with.
Routes ==
    { [route |-> "POST /api/admin/instances", guard |-> "admin"],
      [route |-> "DELETE /api/admin/instances/:instanceId", guard |-> "admin"],
      [route |-> "GET /api/instances/:instanceId/qr", guard |-> "api"],
      [route |-> "POST /api/webhook/:instanceId", guard |-> "api"] }

\* The middleware of the route runs; the handler is invoked when it calls next.
Gate(env, headers, route) ==
    IF route.guard = "admin" THEN validateAdminKey(env, headers) ELSE validateApiKey(env, headers)

\* process.env and the credential headers of a request.
Environments ==
    [API_KEY : { Undefined, "", "api-secret" }, ADMIN_API_KEY : { Undefined, "", "admin-secret" },
     NODE_ENV : { Undefined, "development", "production" }]
CredentialHeaders ==
    [xApiKey : { Undefined, "", "api-secret", "admin-secret" },
     xAdminKey : { Undefined, "", "api-secret", "admin-secret" }]

InitGate ==
    /\ store = [i \in Instances |-> NoConfig]
    /\ clientInstances = [i \in Instances |-> NoClient]
    /\ files = <<>>
    /\ appended = <<>>
    /\ handlers = {}
    /\ arrived = 0
    /\ last = NoHandler
    /\ arg \in [env : Environments, headers : CredentialHeaders, route : Routes]
    /\ res = [done |-> FALSE]
    /\ InitAdmin

Request ==
    /\ ~res.done
    /\ res' = [done |-> TRUE, value |-> Gate(arg.env, arg.headers, arg.route)]
    /\ UNCHANGED <<store, clientInstances, files, appended, handlers, arrived, last, arg>>
    /\ UNCHANGED adminVars

NextGate == Request

SpecGate == InitGate /\ [][NextGate]_vars

\* C19: a request reaches an admin handler only with an admin credential
\* header equal to the configured admin secret, and an instance-scoped
\* handler only with an API credential header equal to the configured API
\* secret, in every configuration, one without a secret included.
C19_CredentialRequired ==
    (res.done /\ res.value.next) =>
        IF arg.route.guard = "admin"
        THEN arg.headers.xAdminKey \notin { Undefined, "" }
             /\ arg.headers.xAdminKey = arg.env.ADMIN_API_KEY
        ELSE arg.headers.xApiKey \notin { Undefined, "" }
             /\ arg.headers.xApiKey = arg.env.API_KEY

\* ---------------------------------------------------------- two instances

\* Two instance ids that createInstance accepts.
TwoInstances == { <<"a", "-", "b">>, <<"a", "_", "b">> }

\* The peers that write to the two instances.
TwoPeers == { UserA, <<"5559999999", "@c.us">> }

InitTwo ==
    /\ store = [i \in TwoInstances |-> NoConfig]
    /\ clientInstances = [i \in TwoInstances |-> NoClient]
    /\ files = <<>>
    /\ appended = <<>>
    /\ handlers = {}
    /\ arrived = 0
    /\ last = NoHandler
    /\ arg = <<>>
    /\ res = <<>>
    /\ InitAdmin

\* The router of the two instances, each open to every user.
NextTwo ==
    \/ \E i \in TwoInstances :
          CreateInstance(i, CHOOSE n \in N8nConfigChoices : "fallbackWebhookPath" \in DOMAIN n,
                         { <<"*">> }, {}, CHOOSE o \in OptionsChoices : o.notifyUnauthorized)
    \/ \E i \in TwoInstances, from \in TwoPeers :
          MessageCreate(i, from, <<"hello">>, FALSE, FALSE, TRUE)
    \/ \E h \in handlers, post \in RouterTier1Posts : N8nSettled(h, post)
    \/ \E h \in handlers, post \in RouterTier2Posts : AiSettled(h, post)
    \/ \E h \in handlers, ok, writeOk \in BOOLEAN : ReplySettled(h, ok, writeOk)

SpecTwo == InitTwo /\ [][NextTwo]_vars

\* The persisted conversation of a pair in a file system, empty when the
\* pair has no file.
ConversationOf(fs, i, peer) ==
    IF FileOf(i, peer) \in DOMAIN fs THEN fs[FileOf(i, peer)] ELSE <<>>

\* C18: conversations are isolated per (instance, peer): a handler that runs
\* for one pair never creates or modifies the persisted conversation of a
\* different pair.
C18_ConversationIsolation ==
    [][\A h \in handlers \ handlers' :
          \A j \in TwoInstances, q \in TwoPeers :
              <<j, q>> # <<h.inst, h.from>> =>
                  ConversationOf(files', j, q) = ConversationOf(files, j, q)]_vars

\* The step is an operation or an event of instance a: its config changes,
\* or one of its message handlers starts, goes on or returns.
StepOf(a) ==
    \/ store'[a] # store[a]
    \/ clientInstances'[a] # clientInstances[a]
    \/ \E h \in (handlers \ handlers') \cup (handlers' \ handlers) : h.inst = a

\* C20: operations on distinct instance ids are independent: a step of
\* instance a leaves the runtime entry, the persisted config and status and
\* the conversations of every other instance b unchanged.
C20_InstancesIndependent ==
    [][\A a, b \in TwoInstances :
          (a # b /\ StepOf(a)) =>
              /\ clientInstances'[b] = clientInstances[b]
              /\ store'[b] = store[b]
              /\ \A q \in TwoPeers : ConversationOf(files', b, q) = ConversationOf(files, b, q)]_vars

\* ------------------------------------------------- the pairing artifact

\* C21: in every reachable state in which the persisted status of an
\* instance is CONNECTED, the instance has no pairing-artifact file.
C21_NoArtifactWhenConnected ==
    \A i \in Instances :
        (~IsNull(store[i]) /\ store[i].status = "CONNECTED") => i \notin qrFiles

\* A Client emitted two events, the second one ready, and the status is
\* CONNECTED.
C21_Witness ==
    \E k \in 1..Len(handles) :
        /\ handles[k].fired = 2 /\ handles[k].last = "ready"
        /\ ~IsNull(store[handles[k].inst])
        /\ store[handles[k].inst].status = "CONNECTED"

\* ------------------------------------------------- the first turn

\* The bodies that are not empty and hold none of the disallowed tags.
CleanBodies == { b \in Bodies : sanitizeInput(b) = b /\ Trim(b) # <<>> }

\* The call of handleIncomingMessage that an inbound message with this body
\* from this direct sender would start now, up to its first await.
Arriving(i, from, body) ==
    Start(NewHandler(arrived + 1, i, clientInstances[i].config, from, body, FALSE, FALSE),
          files, TRUE)

\* C22: a message from an authorized direct sender with no stored
\* conversation and a non-empty body free of disallowed tags has Tier 1
\* called with the body and a conversation without messages; and once the
\* reply of such a call was sent and the conversation saved, the file holds
\* exactly the user entry with the body and the assistant entry with the
\* text replied, in that order.
C22_FirstTurn ==
    [][ /\ \A i \in Instances, body \in CleanBodies :
              (/\ ~IsNull(clientInstances[i])
               /\ isUserAuthorized(UserA, clientInstances[i].config)
               /\ FileOf(i, UserA) \notin DOMAIN files) =>
                  /\ Arriving(i, UserA, body).pc = "n8n"
                  /\ Arriving(i, UserA, body).n8nCalls = 1
                  /\ Arriving(i, UserA, body).content = body
                  /\ Arriving(i, UserA, body).conv = <<>>
        /\ \A h \in handlers :
              (/\ h.pc = "reply" /\ ~h.isGroup /\ h.conv = <<>>
               /\ handlers' = handlers \ {h}
               /\ last'.saved) =>
                  files'[FileOf(h.inst, h.from)] =
                      << [role |-> "user", content |-> h.content],
                         [role |-> "assistant", content |-> h.out] >>
      ]_vars

\* The first turn of a direct sender was answered and saved.
C22_Witness ==
    /\ ~IsNull(last) /\ ~last.isGroup /\ last.saved /\ Len(last.sent) = 1
    /\ FileOf(last.inst, last.from) \in DOMAIN files
    /\ Len(appended[FileOf(last.inst, last.from)]) = 2
    /\ files[FileOf(last.inst, last.from)][1].content \in CleanBodies

\* ------------------------------------------ events and reconnect timers

\* updateInstanceStatus after its await of getInstanceConfig: the config
\* that was read when the listener called it is written back with the
\* status; nothing is written when there was none.
Written(st, instanceId, read, status) ==
    IF IsNull(read) THEN st
    ELSE [st EXCEPT ![instanceId] = [read EXCEPT !.status = status]]

\* Two events emitted together whose status updates land in the reverse
\* order of the calls.
EmittedTogetherReversed(w, k, e1, e2) ==
    LET i == w.handles[k].inst
        read == w.store[i]
        u1 == Listened(w, k, e1)
        u2 == Listened(u1, k, e2)
        s2 == IF Throws(u1, k, e2) THEN w.store
              ELSE Written(w.store, i, read, EventStatus(e2))
        s1 == IF Throws(w, k, e1) THEN s2
              ELSE Written(s2, i, read, EventStatus(e1))
    IN  [u2 EXCEPT !.store = s1]

\* Two events emitted by a Client one right after the other.  Each listener
\* runs up to the await inside updateInstanceStatus, which has read the
\* config by then; the two continuations run afterwards, in the order of
\* the calls, and each writes back the config it read.
EmittedTogether(w, k, e1, e2) ==
    LET i == w.handles[k].inst
        read == w.store[i]
        u1 == Listened(w, k, e1)
        u2 == Listened(u1, k, e2)
        s1 == IF Throws(w, k, e1) THEN w.store
              ELSE Written(w.store, i, read, EventStatus(e1))
        s2 == IF Throws(u1, k, e2) THEN s1
              ELSE Written(s1, i, read, EventStatus(e2))
    IN  [u2 EXCEPT !.store = s2]

\* A Client that was not destroyed emits two events back to back.
LifecycleBurst(k, e1, e2) ==
    /\ k \in 1..Len(handles)
    /\ handles[k].live
    /\ EventsFired(Len(handles)) + 2 <= MaxEvents
    /\ Apply(EmittedTogether(World, k, e1, e2))
    /\ UNCHANGED <<calls, responses, lastDestroy>>

\* A timer of the disconnected listener fires, five seconds after the
\* event: client.initialize() is called on the Client the listener closed
\* over, whatever became of it since; nothing awaits the call.  A Client
\* that was destroyed is started again when the call gets through (up).
TimerFired(k, up) ==
    /\ k \in 1..Len(handles)
    /\ handles[k].timers > 0
    /\ Apply([World EXCEPT !.handles = [@ EXCEPT ![k] =
                 [@ EXCEPT !.timers = @ - 1, !.connects = @ + 1, !.live = @ \/ up]]])
    /\ UNCHANGED <<calls, responses, lastDestroy>>

\* The runs of the events: an instance is created, restarted and deleted while its
\* Clients emit every event of the lifecycle, one by one and in pairs, and
\* the timers of the disconnected listener fire.
NextEvents ==
    \/ \E id \in Instances, n \in { m \in CreateN8nConfigs : "webhookPath" \in DOMAIN m } :
          /\ NextCall <= MaxEventCalls
          /\ CreateRequest(id, n, { <<"*">> }, {}, CHOOSE o \in OptionsChoices : o.notifyUnauthorized)
    \/ \E c \in calls : ProbeSettled(c, TRUE)
    \/ \E i \in Instances : NextCall <= MaxEventCalls /\ RestartRequest(i)
    \/ \E i \in Instances : NextCall <= MaxEventCalls /\ DeleteRequest(i)
    \/ \E c \in calls, ok \in BOOLEAN : DestroySettled(c, ok)
    \/ \E c \in calls : InitSettled(c, TRUE)
    \/ \E k \in 1..Len(handles), ev \in Events : LifecycleEvent(k, ev)
    \/ \E k \in 1..Len(handles), e1, e2 \in Events : LifecycleBurst(k, e1, e2)
    \/ \E k \in 1..Len(handles), up \in BOOLEAN : TimerFired(k, up)

SpecEvents == Init /\ [][NextEvents]_vars

\* Node runs the callback of every timer that was set: a timer that is
\* pending fires.
SpecEventsFair ==
    SpecEvents /\ \A k \in 1..MaxHandles : WF_vars(\E up \in BOOLEAN : TimerFired(k, up))

\* C23: once a Client was destroyed its initialize() is never called again,
\* and no reconnect timer of its disconnected listener is left pending.
C23_NoConnectAfterDestroy ==
    [][ \A k \in 1..Len(handles) :
            /\ ~handles[k].live => handles'[k].connects = handles[k].connects
            /\ ~handles'[k].live => handles'[k].timers = 0
      ]_vars

\* C24: a disconnected event of a Client leaves the persisted status
\* DISCONNECTED and sets exactly one reconnect timer; every timer fires, so
\* that the n-th disconnected event of a Client is followed by its n-th
\* timer-driven initialize(); and a Client never has more timer-driven
\* initialize() calls than disconnected events.
C24_OneReconnectPerDisconnect ==
    /\ [][ \A k \in 1..Len(handles) :
               (handles'[k].fired > handles[k].fired /\ handles'[k].last = "disconnected") =>
                   /\ handles'[k].timers > handles[k].timers
                   /\ ~IsNull(store[handles[k].inst]) =>
                          store'[handles[k].inst].status = "DISCONNECTED"
         ]_vars
    /\ [](\A k \in 1..Len(handles) :
               /\ handles[k].connects + handles[k].timers = handles[k].disconnects
               /\ handles[k].connects <= handles[k].disconnects)
    /\ \A k \in 1..MaxHandles, n \in 1..MaxEvents :
           (k <= Len(handles) /\ handles[k].disconnects >= n)
               ~> (k <= Len(handles) /\ handles[k].connects >= n)

\* A Client emitted disconnected, its timer fired and called initialize(),
\* and the status is DISCONNECTED.
C24_Witness ==
    \E k \in 1..Len(handles) :
        /\ handles[k].disconnects = 1 /\ handles[k].connects = 1 /\ handles[k].timers = 0
        /\ ~IsNull(store[handles[k].inst])
        /\ store[handles[k].inst].status = "DISCONNECTED"

\* C25: an event of a Client whose instance has a persisted config leaves
\* the status that belongs to the event: WAITING_FOR_QR_SCAN after qr, with
\* the pairing artifact written, AUTHENTICATED after authenticated,
\* AUTH_FAILURE after auth_failure, CONNECTED after ready, with the artifact
\* removed; after events emitted back to back the status is the one of the
\* event emitted last.
C25_EventSetsStatus ==
    [][ \A k \in 1..Len(handles) :
            (handles'[k].fired > handles[k].fired /\ ~IsNull(store[handles[k].inst])) =>
                LET i == handles[k].inst
                    ev == handles'[k].last
                IN  /\ ev = "qr" =>
                           store'[i].status = "WAITING_FOR_QR_SCAN" /\ i \in qrFiles'
                    /\ ev = "authenticated" => store'[i].status = "AUTHENTICATED"
                    /\ ev = "auth_failure" => store'[i].status = "AUTH_FAILURE"
                    /\ ev = "ready" =>
                           store'[i].status = "CONNECTED" /\ i \notin qrFiles'
      ]_vars

\* A Client emitted two events, authenticated last, and the status is
\* AUTHENTICATED.
C25_Witness ==
    \E k \in 1..Len(handles) :
        /\ handles[k].fired = 2 /\ handles[k].last = "authenticated"
        /\ ~IsNull(store[handles[k].inst])
        /\ store[handles[k].inst].status = "AUTHENTICATED"

\* The edges of the lifecycle graph other than those into DESTROYED.
LifecycleEdges ==
    { <<"CREATED", "INITIALIZING">>, <<"INITIALIZING", "WAITING_FOR_QR_SCAN">>,
      <<"WAITING_FOR_QR_SCAN", "AUTHENTICATED">>, <<"AUTHENTICATED", "CONNECTED">>,
      <<"CONNECTED", "DISCONNECTED">>, <<"DISCONNECTED", "INITIALIZING">>,
      <<"INITIALIZING", "AUTH_FAILURE">> }

\* C26: the persisted status follows the lifecycle graph: it is
\* INITIALIZING once initializeWhatsAppInstance was called for the instance
\* and once a reconnect timer called initialize() after a disconnect, and
\* every change of it that is not a change to DESTROYED goes along an edge
\* of the graph.
C26_LifecycleGraph ==
    [][ /\ \A k \in 1..Len(handles') :
              (k > Len(handles) /\ ~IsNull(store'[handles'[k].inst])) =>
                  store'[handles'[k].inst].status = "INITIALIZING"
        /\ \A k \in 1..Len(handles) :
              (handles'[k].connects > handles[k].connects /\ ~IsNull(store'[handles[k].inst])) =>
                  store'[handles[k].inst].status = "INITIALIZING"
        /\ \A i \in Instances :
              (/\ ~IsNull(store[i]) /\ ~IsNull(store'[i])
               /\ store'[i].status # store[i].status
               /\ store'[i].status # "DESTROYED") =>
                  <<store[i].status, store'[i].status>> \in LifecycleEdges
      ]_vars

\* No restart or delete of instance i is under way before or after the
\* step, and no request is answered by it.
NoRestartOrDestroy(i) ==
    /\ \A c \in calls \cup calls' : c.inst = i => c.op \notin {"restart", "delete"}
    /\ responses' = responses

\* C27: AUTH_FAILURE is terminal until a restart or a destroy: while the
\* status of an instance is AUTH_FAILURE and no restart or delete of it is
\* under way, the status stays AUTH_FAILURE and initialize() is called on
\* none of its Clients, whatever they emit and whatever timers are pending.
C27_AuthFailureTerminal ==
    [][ \A i \in Instances :
            (/\ ~IsNull(store[i]) /\ store[i].status = "AUTH_FAILURE"
             /\ NoRestartOrDestroy(i)) =>
                /\ ~IsNull(store'[i]) /\ store'[i].status = "AUTH_FAILURE"
                /\ \A k \in 1..Len(handles) :
                      handles[k].inst = i => handles'[k].connects = handles[k].connects
      ]_vars

\* ------------------------------------------------- a failed initialize

\* C28: when initializeWhatsAppInstance raises to its caller for an
\* instance that had no entry in the runtime map when it was called, the
\* map has no entry for the instance afterwards.
C28_InitAllOrNothing ==
    [][ \A k \in 1..Len(handles) :
            (handles[k].fresh /\ ~handles[k].raised /\ handles'[k].raised) =>
                IsNull(clientInstances'[handles[k].inst])
      ]_vars

\* ------------------------------------------------------ updateInstance

\* The keys of an n8nConfig object in the order they were inserted, which
\* is the order of the JSON text the object was parsed from.  An object
\* that does not say otherwise (keyOrder) has them in the order of the
\* documented request body.
KeyOrder(o) ==
    IF "keyOrder" \in DOMAIN o THEN o.keyOrder
    ELSE SelectSeq(<<"baseUrl", "webhookPath", "fallbackWebhookPath">>,
                   LAMBDA f : f \in DOMAIN o)

\* JSON.stringify of an n8nConfig object: its properties, key by key in
\* insertion order.
JsonStringify(o) == [k \in 1..Len(KeyOrder(o)) |-> <<KeyOrder(o)[k], o[KeyOrder(o)[k]]>>]

\* { ...a, ...b }
Spread(a, b) == [f \in (DOMAIN a) \cup (DOMAIN b) |-> IF f \in DOMAIN b THEN b[f] ELSE a[f]]

\* An update that stamps the time of creation anew.
UpdatedConfigRestamped(existingConfig, body) ==
    [existingConfig EXCEPT
        !.name = IF "name" \in DOMAIN body THEN body.name ELSE @,
        !.n8nConfig = IF "n8nConfig" \in DOMAIN body THEN body.n8nConfig ELSE @,
        !.allowedUsers = IF "allowedUsers" \in DOMAIN body THEN body.allowedUsers ELSE @,
        !.allowedGroups = IF "allowedGroups" \in DOMAIN body THEN body.allowedGroups ELSE @,
        !.options = IF "options" \in DOMAIN body THEN Spread(@, body.options) ELSE @,
        !.created = Now]

\* The config updateInstance saves: the existing one with the fields the
\* request body gives.
UpdatedConfig(existingConfig, body) ==
    [existingConfig EXCEPT
        !.name = IF "name" \in DOMAIN body THEN body.name ELSE @,
        !.n8nConfig = IF "n8nConfig" \in DOMAIN body THEN body.n8nConfig ELSE @,
        !.allowedUsers = IF "allowedUsers" \in DOMAIN body THEN body.allowedUsers ELSE @,
        !.allowedGroups = IF "allowedGroups" \in DOMAIN body THEN body.allowedGroups ELSE @,
        !.options = IF "options" \in DOMAIN body THEN Spread(@, body.options) ELSE @]

\* req.body.n8nConfig of an update request: the config of the create
\* requests, the same with its keys in the other order, and one with
\* another base URL.
UpdateN8nConfigs ==
    { [baseUrl |-> "http://n8n", webhookPath |-> "webhook/whatsapp-ai-bot"],
      [baseUrl |-> "http://n8n", webhookPath |-> "webhook/whatsapp-ai-bot",
       keyOrder |-> <<"webhookPath", "baseUrl">>],
      [baseUrl |-> "http://n8n-2", webhookPath |-> "webhook/whatsapp-ai-bot"] }

\* req.body of an update request.
UpdateBodies ==
    { [n8nConfig |-> n] : n \in UpdateN8nConfigs } \cup
    { [name |-> <<"Bot">>, allowedUsers |-> { UserA }],
      [allowedGroups |-> { Group1 }, options |-> [maxConversationLength |-> 2]] }

\* PUT /api/admin/instances/:instanceId up to its first await that waits
\* for something: the merged config is saved, and when the JSON text of the
\* n8nConfig is another one and the instance has a Client, the handler goes
\* on to destroy it.
UpdateRequest(i, body) ==
    /\ NextCall <= MaxCalls
    /\ IF IsNull(store[i]) THEN Respond(NewCall("update", i, store[i]), 404) /\ Apply(World)
       ELSE LET updatedConfig == UpdatedConfig(store[i], body)
                c == NewCall("update", i, updatedConfig)
                requiresRestart == JsonStringify(store[i].n8nConfig) #
                                       JsonStringify(updatedConfig.n8nConfig)
                w == [World EXCEPT !.store = [@ EXCEPT ![i] = updatedConfig]]
            IN  IF requiresRestart /\ ~IsNull(clientInstances[i])
                THEN SuspendInDestroy(c) /\ Apply(w)
                ELSE Respond(c, 200) /\ Apply(w)
    /\ UNCHANGED lastDestroy

\* The runs of the updates: an instance is created, updated and restarted
\* while its Clients emit events.
NextUpdate ==
    \/ \E id \in Instances, n \in { m \in CreateN8nConfigs : "webhookPath" \in DOMAIN m } :
          CreateRequest(id, n, { <<"*">> }, {}, CHOOSE o \in OptionsChoices : o.notifyUnauthorized)
    \/ \E c \in calls : ProbeSettled(c, TRUE)
    \/ \E i \in Instances, body \in UpdateBodies : UpdateRequest(i, body)
    \/ \E i \in Instances : RestartRequest(i)
    \/ \E c \in calls, ok \in BOOLEAN : DestroySettled(c, ok)
    \/ \E c \in calls : InitSettled(c, TRUE)
    \/ \E k \in 1..Len(handles), ev \in EventChoices : LifecycleEvent(k, ev)

SpecUpdate == Init /\ [][NextUpdate]_vars

\* Two n8nConfig objects with the same properties and the same values.
SameObject(a, b) ==
    /\ (DOMAIN a) \ {"keyOrder"} = (DOMAIN b) \ {"keyOrder"}
    /\ \A f \in (DOMAIN a) \ {"keyOrder"} : a[f] = b[f]

\* The step receives an update request for instance i.
UpdateReceived(i) ==
    \/ \E c \in calls' : c.n = NextCall /\ c.op = "update" /\ c.inst = i
    \/ /\ Len(responses') = Len(responses) + 1
       /\ responses'[Len(responses')].n = NextCall
       /\ responses'[Len(responses')].op = "update"
       /\ responses'[Len(responses')].inst = i

\* C29: an update of an instance that has a Client restarts it exactly when
\* the update changes the n8nConfig.  When the n8nConfig is another one
\* the handler goes on to destroy the Client and, once that has settled,
\* constructs the new Client with the updated config; when it is the same,
\* the request is answered with no Client destroyed or constructed and the
\* runtime map as it was.
C29_RestartIffN8nConfigChanged ==
    [][ /\ \A i \in Instances :
              (UpdateReceived(i) /\ ~IsNull(store[i]) /\ ~IsNull(clientInstances[i])) =>
                  IF SameObject(store[i].n8nConfig, store'[i].n8nConfig)
                  THEN /\ \A c \in calls' : c.n # NextCall
                       /\ handles' = handles
                       /\ clientInstances' = clientInstances
                  ELSE \E c \in calls' :
                          /\ c.n = NextCall /\ c.pc = "destroy"
                          /\ c.config = store'[i]
                          /\ handles' = handles
        /\ \A c \in calls :
              (c.op = "update" /\ c.pc = "destroy" /\ c \notin calls') =>
                  /\ ~IsNull(lastDestroy') /\ lastDestroy'.inst = c.inst
                  /\ Len(handles') = Len(handles) + 1
                  /\ handles'[Len(handles')].config = c.config
      ]_vars

\* The step is not the one in which a create request saves its config.
NoCreateSaves == \A c \in calls : (c.op = "create" /\ c.pc = "probe") => c \in calls'

\* C30: no update, restart or lifecycle event changes the instanceId or the
\* time of creation of a persisted config; and the step in which an update
\* saves its config changes nothing of it but name, n8nConfig, allowedUsers,
\* allowedGroups and options: the status is the one that was read.
C30_IdentityKept ==
    [][ \A i \in Instances :
            /\ (~IsNull(store[i]) /\ ~IsNull(store'[i]) /\ NoCreateSaves) =>
                   /\ store'[i].instanceId = store[i].instanceId
                   /\ store'[i].created = store[i].created
            /\ (UpdateReceived(i) /\ ~IsNull(store[i])) =>
                   /\ ~IsNull(store'[i])
                   /\ DOMAIN store'[i] = DOMAIN store[i]
                   /\ \A f \in {"instanceId", "created", "status"} : store'[i][f] = store[i][f]
      ]_vars

\* An update that renamed the instance was answered, a restart was
\* answered, and a Client of the instance emitted an event.
C30_Witness ==
    /\ \E r \in 1..Len(responses) : responses[r].op = "update" /\ responses[r].code = 200
    /\ \E r \in 1..Len(responses) : responses[r].op = "restart" /\ responses[r].code = 200
    /\ \E k \in 1..Len(handles) : handles[k].fired > 0
    /\ \E i \in Instances : ~IsNull(store[i]) /\ store[i].name = <<"Bot">> /\ store[i].created = 1

\* ------------------------------------------------- group messages

\* C31: a message from an authorized group in which the instance is not
\* mentioned and whose body does not start with the command prefix of the
\* instance is ignored: the handler returns with no reply sent and no AI
\* tier called, and so with no conversation written.
C31_GroupNeedsMentionOrPrefix ==
    \A i \in Instances, body \in Bodies :
        (/\ ~IsNull(clientInstances[i]) /\ ~IsNull(store[i])
         /\ isGroupAuthorized(Group1, store[i])
         /\ ~StartsWith(body, store[i].options.commandPrefix)) =>
            /\ Arriving(i, Group1, body).pc = "done"
            /\ Arriving(i, Group1, body).n8nCalls = 0
            /\ Arriving(i, Group1, body).sent = <<>>

\* ------------------------------------------------- authorization, stated

\* s without the suffix suf, when it ends with it.
StripSuffix(s, suf) ==
    IF s # <<>> /\ s[Len(s)] = suf THEN SubSeq(s, 1, Len(s) - 1) ELSE s

\* An id of a group chat.
IsGroupId(id) == id # <<>> /\ id[Len(id)] = "@g.us"

\* The list of a config, empty when the config has none.
ListOf(config, name) == IF name \in DOMAIN config THEN config[name] ELSE {}

\* C32: with an absent config isUserAuthorized and isGroupAuthorized are
\* false.  With a config whose allowedUsers has no "*", isUserAuthorized
\* of a non-group id is true exactly when the id without its "@c.us"
\* suffix is an allowedUsers entry without its "@c.us" suffix, and of a
\* group id it is isGroupAuthorized, which with no "*" in allowedGroups is
\* membership in allowedGroups.
C32_AuthorizationRule ==
    res.done =>
        IF IsNull(arg.config)
        THEN ~res.value /\ ~isGroupAuthorized(arg.id, arg.config)
        ELSE <<"*">> \notin ListOf(arg.config, "allowedUsers") =>
                IF IsGroupId(arg.id)
                THEN /\ res.value = isGroupAuthorized(arg.id, arg.config)
                     /\ <<"*">> \notin ListOf(arg.config, "allowedGroups") =>
                            (isGroupAuthorized(arg.id, arg.config)
                                <=> arg.id \in ListOf(arg.config, "allowedGroups"))
                ELSE res.value <=>
                        \E e \in ListOf(arg.config, "allowedUsers") :
                            StripSuffix(e, "@c.us") = StripSuffix(arg.id, "@c.us")

\* ------------------------------------------------- the config store

\* instanceId.replace(/[^a-zA-Z0-9-_]/g, '_'), token by token: the name of
\* the config file of an instance id, without its extension.
SafeInstanceId(instanceId) ==
    [k \in 1..Len(instanceId) |->
        IF instanceId[k] \in {".", " ", "/", "*", "<", ">", "@c.us", "@g.us"} THEN "_"
        ELSE instanceId[k]]

\* getInstanceConfig on the directory of config files: null when the file
\* of the id does not exist.
getInstanceConfig(dir, instanceId) ==
    IF SafeInstanceId(instanceId) \in DOMAIN dir THEN dir[SafeInstanceId(instanceId)]
    ELSE NoConfig

\* saveInstanceConfig: the file of the id is written, over what it held.
saveInstanceConfig(dir, instanceId, config) ==
    [f \in (DOMAIN dir) \cup {SafeInstanceId(instanceId)} |->
        IF f = SafeInstanceId(instanceId) THEN config ELSE dir[f]]

\* deleteInstanceConfig: the file of the id is removed when it exists.
deleteInstanceConfig(dir, instanceId) ==
    [f \in (DOMAIN dir) \ {SafeInstanceId(instanceId)} |-> dir[f]]

\* The instance ids the store is called with.  The ids of requests other
\* than create are route parameters, which no handler validates.
StoreIds == { <<"bot1">>, <<"a", "_", "b">>, <<"a", ".", "b">> }

\* The configs saved for an id.
StoreConfigs(id) == { NewConfig(id, n, { <<"*">> }, {}, o) : n \in CreateN8nConfigs, o \in OptionsChoices }

\* The directory starts empty; nothing was written for any id.
InitStore ==
    /\ store = [i \in Instances |-> NoConfig]
    /\ clientInstances = [i \in Instances |-> NoClient]
    /\ files = <<>>
    /\ appended = <<>>
    /\ handlers = {}
    /\ arrived = 0
    /\ last = NoHandler
    /\ arg = <<>>
    /\ res = [op |-> "none", written |-> [id \in StoreIds |-> NoConfig]]
    /\ InitAdmin

\* One call of the store.  arg is the directory; res keeps the call, what it
\* returned, and for every id the config last saved for it and not deleted
\* since.
StoreCall(op, id, config) ==
    /\ arg' = CASE op = "save" -> saveInstanceConfig(arg, id, config)
                 [] op = "delete" -> deleteInstanceConfig(arg, id)
                 [] OTHER -> arg
    /\ res' = [op |-> op, id |-> id,
               value |-> IF op = "get" THEN getInstanceConfig(arg, id) ELSE NoConfig,
               written |-> CASE op = "save" -> [res.written EXCEPT ![id] = config]
                             [] op = "delete" -> [res.written EXCEPT ![id] = NoConfig]
                             [] OTHER -> res.written]
    /\ UNCHANGED <<store, clientInstances, files, appended, handlers, arrived, last>>
    /\ UNCHANGED adminVars

NextStore ==
    \E op \in {"get", "save", "delete"}, id \in StoreIds :
        \E config \in StoreConfigs(id) : StoreCall(op, id, config)

SpecStore == InitStore /\ [][NextStore]_vars

\* C33: the config store is a register keyed by the instance id:
\* getInstanceConfig returns the config last saved for the id, and null for
\* an id never saved or deleted since; after deleteInstanceConfig the id
\* reads as null and a second delete leaves the directory as it is.
C33_KeyedRegister ==
    /\ res.op = "get" => res.value = res.written[res.id]
    /\ res.op = "delete" =>
           /\ IsNull(getInstanceConfig(arg, res.id))
           /\ deleteInstanceConfig(arg, res.id) = arg

\* ------------------------------------------------- the runtime registry

\* C34: every Client that was constructed and not destroyed is the Client
\* registered in the runtime map for its instance id, so that an instance
\* id has at most one such Client.
C34_NoLeakedHandles ==
    \A k \in 1..Len(handles) :
        handles[k].live =>
            /\ ~IsNull(clientInstances[handles[k].inst])
            /\ clientInstances[handles[k].inst].handle = k

\* ------------------------------------------------- concurrent turns

\* Handler h sends its answer and saves the conversation in this step.
Saves(h) ==
    /\ h \in handlers /\ h.pc = "reply"
    /\ handlers' = handlers \ {h}
    /\ last'.saved

\* C35: no completed turn is lost: when a handler that read the
\* conversation saves it, the file afterwards holds what it held before
\* followed by the pair of this turn, trimmed to the window the handler
\* trims to, also when another turn of the same conversation was saved
\* while this one waited for the AI or for the send.
C35_NoLostTurn ==
    [][ \A h \in handlers :
            (/\ Saves(h) /\ ~h.readFailed
             /\ FileOf(h.inst, h.from) \in DOMAIN files) =>
                files'[FileOf(h.inst, h.from)] =
                    SliceLast(files[FileOf(h.inst, h.from)] \o NewEntries(h), MaxLength(h.cfg))
      ]_vars

\* ------------------------------------------- what changes a conversation

\* The answer handler h is sending is the output of Tier 1 or what
\* handleFallbackAi returned, not the apology and not the denial notice.
SendsAnswer(h) ==
    /\ h.pc = "reply"
    /\ ~h.apology
    /\ \/ h.aiCalls = 0 /\ h.t1 = "output" /\ h.out = h.t1out
       \/ h.aiCalls > 0 /\ h.t2 \in {"data", "threw"}

\* C36: the conversation files change only in the step in which the
\* reply of an answer of Tier 1, 2 or 3 has been sent: the handler that
\* sent it returns with that answer as the one text it sent, and only the
\* file of its conversation changes.  A step in which a reply fails, or in
\* which the apology or the denial notice is sent, changes no file.
C36_OnlyAnsweredTurnsPersist ==
    [][ files' # files =>
            \E h \in handlers :
                /\ SendsAnswer(h)
                /\ handlers' = handlers \ {h}
                /\ last'.sent = h.sent \o <<h.out>>
                /\ ~last'.apology
                /\ \A f \in DOMAIN files :
                       f # FileOf(h.inst, h.from) => f \in DOMAIN files' /\ files'[f] = files[f]
      ]_vars

\* A handler whose first reply failed has sent the answer of the fallback
\* and saved the turn.
C36_Witness ==
    /\ ~IsNull(last) /\ last.saved /\ last.aiCalls > 0 /\ last.t1 = "output"
    /\ FileOf(last.inst, last.from) \in DOMAIN files

\* ------------------------------------------- updates and the routing

\* What a call of handleIncomingMessage with this config does with a
\* message up to its first await: where it stands, what it has sent for, the
\* text it goes on with, and the window it will trim to.
Routed(i, config, from, body) ==
    LET h == Start(NewHandler(arrived + 1, i, config, from, body, FALSE, FALSE), files, TRUE)
    IN  [pc |-> h.pc, out |-> h.out, content |-> h.content, window |-> MaxLength(config)]

\* An update of instance i was answered 200 and no request for the
\* instance is being handled.
UpdateCompleted(i) ==
    /\ \E r \in 1..Len(responses) :
           responses[r].op = "update" /\ responses[r].inst = i /\ responses[r].code = 200
    /\ \A c \in calls : c.inst # i

\* C37: once an update of an instance has completed, a message arriving
\* at the registered Client of the instance is authorized, gated and
\* trimmed as the persisted config says, whether or not the update
\* restarted the Client.
C37_UpdatesTakeEffect ==
    \A i \in Instances :
        (UpdateCompleted(i) /\ ~IsNull(store[i]) /\ ~IsNull(clientInstances[i])) =>
            \A from \in Senders, body \in Bodies :
                Routed(i, clientInstances[i].config, from, body) = Routed(i, store[i], from, body)

\* ------------------------------------------------- non-empty answers

\* C38: every answer the handler replies with is a non-empty text, and so
\* is the content of every assistant entry of a stored conversation: a
\* Tier 2 response with none of text, message and content ends in the
\* static text of Tier 3.
C38_NonEmptyAnswers ==
    /\ \A h \in handlers : h.pc = "reply" => Truthy(h.out)
    /\ \A f \in DOMAIN files : \A k \in 1..Len(files[f]) :
           files[f][k].role = "assistant" => Truthy(files[f][k].content)

\* ------------------------------------------------- the pairing artifact

\* getInstanceQr answers call c in this step with the status pending.
AnswersPending(c) ==
    /\ c \in calls /\ c.op = "qr" /\ c \notin calls'
    /\ Len(responses') = Len(responses) + 1
    /\ responses'[Len(responses')].n = c.n
    /\ "status" \in DOMAIN responses'[Len(responses')]
    /\ responses'[Len(responses')].status = "pending"

\* C39: when getInstanceQr answers pending with a code, the instance has
\* a registered Client and the pairing artifact read was written by the qr
\* listener of that Client.
C39_NoStaleQr ==
    [][ \A c \in calls :
            AnswersPending(c) =>
                /\ ~IsNull(clientInstances[c.inst])
                /\ handles[clientInstances[c.inst].handle].wrote
      ]_vars
====
